---- MODULE Spec2Model ----
(***************************************************************************)
(* The demo-data seed script of Availability_ai                            *)
(* (src/creating_demo db/dbschema/statuses.js, seedDatabase) run against a *)
(* MongoDB store: connect, clear 19 collections with Promise.all of        *)
(* deleteMany, populate 18 collections with sequential insertMany calls    *)
(* whose records reference earlier batches by position, print the summary, *)
(* close the connection in the finally block and exit the process.         *)
(*                                                                         *)
(* The store outlives the process: the script may be started again on what *)
(* an earlier run left.  Datastore operations (connect, deleteMany,        *)
(* insertMany, close) may reject; a behaviour contains at most one         *)
(* rejection (variable faulted).  Identifiers are drawn from one counter,  *)
(* so no two documents of a behaviour share one.                           *)
(***************************************************************************)
EXTENDS Integers, Sequences, FiniteSets, TLC

\* Number of times the script is started against the same store.
MaxRuns == 2
\* How far ahead of the oldest outstanding deleteMany another one may complete.
MaxReorder == 2
\* Largest number of documents a failing insertMany leaves in its collection.
MaxPartial == 1
\* Largest number of schema paths an input to a model leaves out.
MaxOmit == 2
\* Latest instant of the process clock, counted from the load of the schema modules.
MaxClock == 2

\* Client.insertMany([...]) literal, statuses.js lines 102-115: one entry per record,
\* refs = the <<field path, batch variable, positional index, toString()>> of every
\* `batch[i]._id` expression of the record, in source order; the other fields are the values the record supplies,
\* a time string as the sequence of its characters.
clientsData ==
  <<
  [refs |-> <<>>],
  [refs |-> <<>>],
  [refs |-> <<>>],
  [refs |-> <<>>],
  [refs |-> <<>>],
  [refs |-> <<>>],
  [refs |-> <<>>],
  [refs |-> <<>>],
  [refs |-> <<>>],
  [refs |-> <<>>],
  [refs |-> <<>>],
  [refs |-> <<>>]
  >>

\* Designation.insertMany([...]) literal, statuses.js lines 120-131: one entry per record,
\* refs = the <<field path, batch variable, positional index, toString()>> of every
\* `batch[i]._id` expression of the record, in source order; the other fields are the values the record supplies,
\* a time string as the sequence of its characters.
designationsData ==
  <<
  [refs |-> <<>>],
  [refs |-> <<>>],
  [refs |-> <<>>],
  [refs |-> <<>>],
  [refs |-> <<>>],
  [refs |-> <<>>],
  [refs |-> <<>>],
  [refs |-> <<>>],
  [refs |-> <<>>],
  [refs |-> <<>>]
  >>

\* Skill.insertMany([...]) literal, statuses.js lines 136-157: one entry per record,
\* refs = the <<field path, batch variable, positional index, toString()>> of every
\* `batch[i]._id` expression of the record, in source order; the other fields are the values the record supplies,
\* a time string as the sequence of its characters.
skillsData ==
  <<
  [refs |-> <<>>],
  [refs |-> <<>>],
  [refs |-> <<>>],
  [refs |-> <<>>],
  [refs |-> <<>>],
  [refs |-> <<>>],
  [refs |-> <<>>],
  [refs |-> <<>>],
  [refs |-> <<>>],
  [refs |-> <<>>],
  [refs |-> <<>>],
  [refs |-> <<>>],
  [refs |-> <<>>],
  [refs |-> <<>>],
  [refs |-> <<>>],
  [refs |-> <<>>],
  [refs |-> <<>>],
  [refs |-> <<>>],
  [refs |-> <<>>],
  [refs |-> <<>>]
  >>

\* Role.insertMany([...]) literal, statuses.js lines 162-209: one entry per record,
\* refs = the <<field path, batch variable, positional index, toString()>> of every
\* `batch[i]._id` expression of the record, in source order; the other fields are the values the record supplies,
\* a time string as the sequence of its characters.
rolesData ==
  <<
  [refs |-> <<>>],
  [refs |-> <<>>],
  [refs |-> <<>>],
  [refs |-> <<>>],
  [refs |-> <<>>]
  >>

\* User.insertMany([...]) literal, statuses.js lines 214-475: one entry per record,
\* refs = the <<field path, batch variable, positional index, toString()>> of every
\* `batch[i]._id` expression of the record, in source order; the other fields are the values the record supplies,
\* a time string as the sequence of its characters.
usersData ==
  <<
  [refs |-> <<<<"roles", "roles", 0, FALSE>>, <<"designation", "designations", 0, FALSE>>, <<"skills", "skills", 0, FALSE>>, <<"skills", "skills", 1, FALSE>>, <<"skills", "skills", 2, FALSE>>>>],
  [refs |-> <<<<"roles", "roles", 1, FALSE>>, <<"designation", "designations", 1, FALSE>>, <<"skills", "skills", 1, FALSE>>, <<"skills", "skills", 8, FALSE>>>>],
  [refs |-> <<<<"roles", "roles", 2, FALSE>>, <<"designation", "designations", 2, FALSE>>, <<"skills", "skills", 3, FALSE>>, <<"skills", "skills", 4, FALSE>>>>],
  [refs |-> <<<<"roles", "roles", 1, FALSE>>, <<"designation", "designations", 3, FALSE>>, <<"skills", "skills", 5, FALSE>>, <<"skills", "skills", 6, FALSE>>>>],
  [refs |-> <<<<"roles", "roles", 1, FALSE>>, <<"designation", "designations", 4, FALSE>>, <<"skills", "skills", 7, FALSE>>, <<"skills", "skills", 1, FALSE>>>>],
  [refs |-> <<<<"roles", "roles", 1, FALSE>>, <<"designation", "designations", 5, FALSE>>, <<"skills", "skills", 5, FALSE>>, <<"skills", "skills", 6, FALSE>>, <<"skills", "skills", 2, FALSE>>>>],
  [refs |-> <<<<"roles", "roles", 1, FALSE>>, <<"designation", "designations", 1, FALSE>>, <<"skills", "skills", 0, FALSE>>, <<"skills", "skills", 2, FALSE>>, <<"skills", "skills", 9, FALSE>>>>],
  [refs |-> <<<<"roles", "roles", 1, FALSE>>, <<"designation", "designations", 0, FALSE>>, <<"skills", "skills", 1, FALSE>>, <<"skills", "skills", 3, FALSE>>, <<"skills", "skills", 8, FALSE>>>>],
  [refs |-> <<<<"roles", "roles", 1, FALSE>>, <<"designation", "designations", 3, FALSE>>, <<"skills", "skills", 4, FALSE>>, <<"skills", "skills", 5, FALSE>>>>],
  [refs |-> <<<<"roles", "roles", 1, FALSE>>, <<"designation", "designations", 5, FALSE>>, <<"skills", "skills", 5, FALSE>>, <<"skills", "skills", 6, FALSE>>, <<"skills", "skills", 13, FALSE>>>>],
  [refs |-> <<<<"roles", "roles", 2, FALSE>>, <<"designation", "designations", 2, FALSE>>, <<"skills", "skills", 3, FALSE>>>>],
  [refs |-> <<<<"roles", "roles", 1, FALSE>>, <<"designation", "designations", 6, FALSE>>, <<"skills", "skills", 0, FALSE>>, <<"skills", "skills", 2, FALSE>>, <<"skills", "skills", 8, FALSE>>, <<"skills", "skills", 14, FALSE>>>>],
  [refs |-> <<<<"roles", "roles", 1, FALSE>>, <<"designation", "designations", 1, FALSE>>, <<"skills", "skills", 14, FALSE>>, <<"skills", "skills", 15, FALSE>>>>],
  [refs |-> <<<<"roles", "roles", 1, FALSE>>, <<"designation", "designations", 4, FALSE>>, <<"skills", "skills", 1, FALSE>>, <<"skills", "skills", 4, FALSE>>, <<"skills", "skills", 19, FALSE>>>>],
  [refs |-> <<<<"roles", "roles", 1, FALSE>>, <<"designation", "designations", 3, FALSE>>, <<"skills", "skills", 1, FALSE>>, <<"skills", "skills", 10, FALSE>>>>],
  [refs |-> <<<<"roles", "roles", 1, FALSE>>, <<"designation", "designations", 1, FALSE>>, <<"skills", "skills", 16, FALSE>>, <<"skills", "skills", 17, FALSE>>, <<"skills", "skills", 18, FALSE>>>>],
  [refs |-> <<<<"roles", "roles", 2, FALSE>>, <<"designation", "designations", 8, FALSE>>>>],
  [refs |-> <<<<"roles", "roles", 1, FALSE>>, <<"designation", "designations", 7, FALSE>>>>],
  [refs |-> <<<<"roles", "roles", 1, FALSE>>, <<"designation", "designations", 0, FALSE>>, <<"skills", "skills", 4, FALSE>>, <<"skills", "skills", 11, FALSE>>, <<"skills", "skills", 19, FALSE>>>>],
  [refs |-> <<<<"roles", "roles", 1, FALSE>>, <<"designation", "designations", 5, FALSE>>, <<"skills", "skills", 5, FALSE>>, <<"skills", "skills", 6, FALSE>>, <<"skills", "skills", 12, FALSE>>, <<"skills", "skills", 13, FALSE>>>>]
  >>

\* Technology.insertMany([...]) literal, statuses.js lines 480-493: one entry per record,
\* refs = the <<field path, batch variable, positional index, toString()>> of every
\* `batch[i]._id` expression of the record, in source order; the other fields are the values the record supplies,
\* a time string as the sequence of its characters.
technologiesData ==
  <<
  [refs |-> <<>>],
  [refs |-> <<>>],
  [refs |-> <<>>],
  [refs |-> <<>>],
  [refs |-> <<>>],
  [refs |-> <<>>],
  [refs |-> <<>>],
  [refs |-> <<>>],
  [refs |-> <<>>],
  [refs |-> <<>>],
  [refs |-> <<>>],
  [refs |-> <<>>]
  >>

\* Project.insertMany([...]) literal, statuses.js lines 498-651: one entry per record,
\* refs = the <<field path, batch variable, positional index, toString()>> of every
\* `batch[i]._id` expression of the record, in source order; the other fields are the values the record supplies,
\* a time string as the sequence of its characters.
projectsData ==
  <<
  [refs |-> <<<<"client", "clients", 0, FALSE>>, <<"technologies.client.techId", "technologies", 0, FALSE>>, <<"technologies.server.techId", "technologies", 4, FALSE>>, <<"technologies.server.techId", "technologies", 8, FALSE>>>>],
  [refs |-> <<<<"client", "clients", 1, FALSE>>, <<"technologies.client.techId", "technologies", 0, FALSE>>, <<"technologies.server.techId", "technologies", 4, FALSE>>>>],
  [refs |-> <<<<"client", "clients", 2, FALSE>>>>],
  [refs |-> <<<<"client", "clients", 5, FALSE>>, <<"technologies.client.techId", "technologies", 1, FALSE>>, <<"technologies.server.techId", "technologies", 4, FALSE>>>>],
  [refs |-> <<<<"client", "clients", 9, FALSE>>, <<"technologies.client.techId", "technologies", 0, FALSE>>, <<"technologies.server.techId", "technologies", 4, FALSE>>>>],
  [refs |-> <<<<"client", "clients", 7, FALSE>>>>],
  [refs |-> <<<<"client", "clients", 6, FALSE>>>>],
  [refs |-> <<<<"client", "clients", 8, FALSE>>, <<"technologies.client.techId", "technologies", 3, FALSE>>, <<"technologies.server.techId", "technologies", 4, FALSE>>>>],
  [refs |-> <<<<"client", "clients", 11, FALSE>>>>],
  [refs |-> <<<<"client", "clients", 10, FALSE>>>>]
  >>

\* Status.insertMany([...]) literal, statuses.js lines 656-663: one entry per record,
\* refs = the <<field path, batch variable, positional index, toString()>> of every
\* `batch[i]._id` expression of the record, in source order; the other fields are the values the record supplies,
\* a time string as the sequence of its characters.
statusesData ==
  <<
  [refs |-> <<>>, task_status |-> "TODO"],
  [refs |-> <<>>, task_status |-> "IN_PROGRESS"],
  [refs |-> <<>>, task_status |-> "IN_REVIEW"],
  [refs |-> <<>>, task_status |-> "COMPLETED"],
  [refs |-> <<>>, task_status |-> "BLOCKED"],
  [refs |-> <<>>, task_status |-> "ON_HOLD"]
  >>

\* Milestone.insertMany([...]) literal, statuses.js lines 668-833: one entry per record,
\* refs = the <<field path, batch variable, positional index, toString()>> of every
\* `batch[i]._id` expression of the record, in source order; the other fields are the values the record supplies,
\* a time string as the sequence of its characters.
milestonesData ==
  <<
  [refs |-> <<<<"project_id", "projects", 0, FALSE>>, <<"created_by", "users", 2, FALSE>>, <<"milestone_created_by", "users", 2, FALSE>>>>, is_current_milestone |-> TRUE, status |-> "1"],
  [refs |-> <<<<"project_id", "projects", 0, FALSE>>, <<"created_by", "users", 2, FALSE>>, <<"milestone_created_by", "users", 2, FALSE>>>>, is_current_milestone |-> FALSE, status |-> "1"],
  [refs |-> <<<<"project_id", "projects", 1, FALSE>>, <<"created_by", "users", 2, FALSE>>, <<"milestone_created_by", "users", 2, FALSE>>>>, is_current_milestone |-> TRUE, status |-> "1"],
  [refs |-> <<<<"project_id", "projects", 1, FALSE>>, <<"created_by", "users", 2, FALSE>>, <<"milestone_created_by", "users", 2, FALSE>>>>, is_current_milestone |-> FALSE, status |-> "1"],
  [refs |-> <<<<"project_id", "projects", 2, FALSE>>, <<"created_by", "users", 10, FALSE>>, <<"milestone_created_by", "users", 10, FALSE>>>>, is_current_milestone |-> TRUE, status |-> "1"],
  [refs |-> <<<<"project_id", "projects", 3, FALSE>>, <<"created_by", "users", 2, FALSE>>, <<"milestone_created_by", "users", 2, FALSE>>>>, is_current_milestone |-> TRUE, status |-> "1"],
  [refs |-> <<<<"project_id", "projects", 4, FALSE>>, <<"created_by", "users", 10, FALSE>>, <<"milestone_created_by", "users", 10, FALSE>>>>, is_current_milestone |-> TRUE, status |-> "1"],
  [refs |-> <<<<"project_id", "projects", 5, FALSE>>, <<"created_by", "users", 16, FALSE>>, <<"milestone_created_by", "users", 16, FALSE>>>>, is_current_milestone |-> TRUE, status |-> "1"],
  [refs |-> <<<<"project_id", "projects", 6, FALSE>>, <<"created_by", "users", 2, FALSE>>, <<"milestone_created_by", "users", 2, FALSE>>>>, is_current_milestone |-> TRUE, status |-> "1"],
  [refs |-> <<<<"project_id", "projects", 7, FALSE>>, <<"created_by", "users", 10, FALSE>>, <<"milestone_created_by", "users", 10, FALSE>>>>, is_current_milestone |-> TRUE, status |-> "1"],
  [refs |-> <<<<"project_id", "projects", 7, FALSE>>, <<"created_by", "users", 10, FALSE>>, <<"milestone_created_by", "users", 10, FALSE>>>>, is_current_milestone |-> FALSE, status |-> "1"],
  [refs |-> <<<<"project_id", "projects", 8, FALSE>>, <<"created_by", "users", 16, FALSE>>, <<"milestone_created_by", "users", 16, FALSE>>>>, is_current_milestone |-> TRUE, status |-> "1"],
  [refs |-> <<<<"project_id", "projects", 8, FALSE>>, <<"created_by", "users", 16, FALSE>>, <<"milestone_created_by", "users", 16, FALSE>>>>, is_current_milestone |-> FALSE, status |-> "1"],
  [refs |-> <<<<"project_id", "projects", 9, FALSE>>, <<"created_by", "users", 2, FALSE>>, <<"milestone_created_by", "users", 2, FALSE>>>>, is_current_milestone |-> TRUE, status |-> "1"]
  >>

\* Group.insertMany([...]) literal, statuses.js lines 838-1009: one entry per record,
\* refs = the <<field path, batch variable, positional index, toString()>> of every
\* `batch[i]._id` expression of the record, in source order; the other fields are the values the record supplies,
\* a time string as the sequence of its characters.
groupsData ==
  <<
  [refs |-> <<<<"project_id", "projects", 0, FALSE>>, <<"milestone_id", "milestones", 0, FALSE>>>>, status |-> "PROGRESS", delete_status |-> "1"],
  [refs |-> <<<<"project_id", "projects", 0, FALSE>>, <<"milestone_id", "milestones", 0, FALSE>>>>, status |-> "PROGRESS", delete_status |-> "1"],
  [refs |-> <<<<"project_id", "projects", 0, FALSE>>, <<"milestone_id", "milestones", 0, FALSE>>>>, status |-> "COMPLETED", delete_status |-> "1"],
  [refs |-> <<<<"project_id", "projects", 1, FALSE>>, <<"milestone_id", "milestones", 2, FALSE>>>>, status |-> "PROGRESS", delete_status |-> "1"],
  [refs |-> <<<<"project_id", "projects", 1, FALSE>>, <<"milestone_id", "milestones", 2, FALSE>>>>, status |-> "PROGRESS", delete_status |-> "1"],
  [refs |-> <<<<"project_id", "projects", 2, FALSE>>, <<"milestone_id", "milestones", 4, FALSE>>>>, status |-> "PROGRESS", delete_status |-> "1"],
  [refs |-> <<<<"project_id", "projects", 2, FALSE>>, <<"milestone_id", "milestones", 4, FALSE>>>>, status |-> "PROGRESS", delete_status |-> "1"],
  [refs |-> <<<<"project_id", "projects", 3, FALSE>>, <<"milestone_id", "milestones", 5, FALSE>>>>, status |-> "PROGRESS", delete_status |-> "1"],
  [refs |-> <<<<"project_id", "projects", 3, FALSE>>, <<"milestone_id", "milestones", 5, FALSE>>>>, status |-> "PROGRESS", delete_status |-> "1"],
  [refs |-> <<<<"project_id", "projects", 4, FALSE>>, <<"milestone_id", "milestones", 6, FALSE>>>>, status |-> "PROGRESS", delete_status |-> "1"],
  [refs |-> <<<<"project_id", "projects", 4, FALSE>>, <<"milestone_id", "milestones", 6, FALSE>>>>, status |-> "PROGRESS", delete_status |-> "1"],
  [refs |-> <<<<"project_id", "projects", 5, FALSE>>, <<"milestone_id", "milestones", 7, FALSE>>>>, status |-> "PROGRESS", delete_status |-> "1"],
  [refs |-> <<<<"project_id", "projects", 5, FALSE>>, <<"milestone_id", "milestones", 7, FALSE>>>>, status |-> "PROGRESS", delete_status |-> "1"],
  [refs |-> <<<<"project_id", "projects", 6, FALSE>>, <<"milestone_id", "milestones", 8, FALSE>>>>, status |-> "PROGRESS", delete_status |-> "1"],
  [refs |-> <<<<"project_id", "projects", 6, FALSE>>, <<"milestone_id", "milestones", 8, FALSE>>>>, status |-> "PROGRESS", delete_status |-> "1"],
  [refs |-> <<<<"project_id", "projects", 7, FALSE>>, <<"milestone_id", "milestones", 9, FALSE>>>>, status |-> "PROGRESS", delete_status |-> "1"],
  [refs |-> <<<<"project_id", "projects", 7, FALSE>>, <<"milestone_id", "milestones", 9, FALSE>>>>, status |-> "PROGRESS", delete_status |-> "1"],
  [refs |-> <<<<"project_id", "projects", 8, FALSE>>, <<"milestone_id", "milestones", 11, FALSE>>>>, status |-> "PROGRESS", delete_status |-> "1"],
  [refs |-> <<<<"project_id", "projects", 8, FALSE>>, <<"milestone_id", "milestones", 11, FALSE>>>>, status |-> "PROGRESS", delete_status |-> "1"],
  [refs |-> <<<<"project_id", "projects", 9, FALSE>>, <<"milestone_id", "milestones", 13, FALSE>>>>, status |-> "PROGRESS", delete_status |-> "1"]
  >>

\* Task.insertMany([...]) literal, statuses.js lines 1014-1685: one entry per record,
\* refs = the <<field path, batch variable, positional index, toString()>> of every
\* `batch[i]._id` expression of the record, in source order; the other fields are the values the record supplies,
\* a time string as the sequence of its characters.
tasksData ==
  <<
  [refs |-> <<<<"project_id", "projects", 0, FALSE>>, <<"milestone_id", "milestones", 0, FALSE>>, <<"group_id", "groups", 0, FALSE>>, <<"task_status", "statuses", 3, FALSE>>, <<"assigned_by", "users", 2, FALSE>>, <<"assigned_to", "users", 1, FALSE>>, <<"task_created_by", "users", 2, FALSE>>, <<"comments.user_id", "users", 2, FALSE>>>>, status_name |-> "COMPLETED", is_task_finished |-> TRUE, task_logged_time |-> <<"0", "7", ":", "3", "0">>],
  [refs |-> <<<<"project_id", "projects", 0, FALSE>>, <<"milestone_id", "milestones", 0, FALSE>>, <<"group_id", "groups", 1, FALSE>>, <<"task_status", "statuses", 1, FALSE>>, <<"assigned_by", "users", 2, FALSE>>, <<"assigned_to", "users", 0, FALSE>>, <<"task_created_by", "users", 2, FALSE>>>>, status_name |-> "IN_PROGRESS", is_task_finished |-> FALSE, task_logged_time |-> <<"1", "2", ":", "0", "0">>],
  [refs |-> <<<<"project_id", "projects", 0, FALSE>>, <<"milestone_id", "milestones", 0, FALSE>>, <<"group_id", "groups", 0, FALSE>>, <<"task_status", "statuses", 0, FALSE>>, <<"assigned_by", "users", 2, FALSE>>, <<"assigned_to", "users", 1, FALSE>>, <<"assigned_to", "users", 3, FALSE>>, <<"task_created_by", "users", 2, FALSE>>>>, status_name |-> "TODO", is_task_finished |-> FALSE, task_logged_time |-> <<"0", "0", ":", "0", "0">>],
  [refs |-> <<<<"project_id", "projects", 0, FALSE>>, <<"milestone_id", "milestones", 0, FALSE>>, <<"group_id", "groups", 2, FALSE>>, <<"task_status", "statuses", 3, FALSE>>, <<"assigned_by", "users", 2, FALSE>>, <<"assigned_to", "users", 0, FALSE>>, <<"task_created_by", "users", 2, FALSE>>, <<"comments.user_id", "users", 2, FALSE>>>>, status_name |-> "COMPLETED", is_task_finished |-> TRUE, task_logged_time |-> <<"1", "1", ":", "3", "0">>],
  [refs |-> <<<<"project_id", "projects", 0, FALSE>>, <<"milestone_id", "milestones", 0, FALSE>>, <<"group_id", "groups", 1, FALSE>>, <<"task_status", "statuses", 0, FALSE>>, <<"assigned_by", "users", 2, FALSE>>, <<"assigned_to", "users", 0, FALSE>>, <<"assigned_to", "users", 5, FALSE>>, <<"task_created_by", "users", 2, FALSE>>>>, status_name |-> "TODO", is_task_finished |-> FALSE, task_logged_time |-> <<"0", "0", ":", "0", "0">>],
  [refs |-> <<<<"project_id", "projects", 0, FALSE>>, <<"milestone_id", "milestones", 0, FALSE>>, <<"group_id", "groups", 0, FALSE>>, <<"task_status", "statuses", 1, FALSE>>, <<"assigned_by", "users", 2, FALSE>>, <<"assigned_to", "users", 6, FALSE>>, <<"task_created_by", "users", 2, FALSE>>>>, status_name |-> "IN_PROGRESS", is_task_finished |-> FALSE, task_logged_time |-> <<"0", "8", ":", "0", "0">>],
  [refs |-> <<<<"project_id", "projects", 1, FALSE>>, <<"milestone_id", "milestones", 2, FALSE>>, <<"group_id", "groups", 3, FALSE>>, <<"task_status", "statuses", 3, FALSE>>, <<"assigned_by", "users", 2, FALSE>>, <<"assigned_to", "users", 0, FALSE>>, <<"task_created_by", "users", 2, FALSE>>>>, status_name |-> "COMPLETED", is_task_finished |-> TRUE, task_logged_time |-> <<"0", "5", ":", "4", "5">>],
  [refs |-> <<<<"project_id", "projects", 1, FALSE>>, <<"milestone_id", "milestones", 2, FALSE>>, <<"group_id", "groups", 4, FALSE>>, <<"task_status", "statuses", 1, FALSE>>, <<"assigned_by", "users", 2, FALSE>>, <<"assigned_to", "users", 7, FALSE>>, <<"task_created_by", "users", 2, FALSE>>>>, status_name |-> "IN_PROGRESS", is_task_finished |-> FALSE, task_logged_time |-> <<"1", "6", ":", "0", "0">>],
  [refs |-> <<<<"project_id", "projects", 1, FALSE>>, <<"milestone_id", "milestones", 2, FALSE>>, <<"group_id", "groups", 3, FALSE>>, <<"task_status", "statuses", 2, FALSE>>, <<"assigned_by", "users", 2, FALSE>>, <<"assigned_to", "users", 15, FALSE>>, <<"task_created_by", "users", 2, FALSE>>>>, status_name |-> "IN_REVIEW", is_task_finished |-> FALSE, task_logged_time |-> <<"1", "7", ":", "3", "0">>],
  [refs |-> <<<<"project_id", "projects", 1, FALSE>>, <<"milestone_id", "milestones", 2, FALSE>>, <<"group_id", "groups", 4, FALSE>>, <<"task_status", "statuses", 0, FALSE>>, <<"assigned_by", "users", 2, FALSE>>, <<"assigned_to", "users", 7, FALSE>>, <<"task_created_by", "users", 2, FALSE>>>>, status_name |-> "TODO", is_task_finished |-> FALSE, task_logged_time |-> <<"0", "0", ":", "0", "0">>],
  [refs |-> <<<<"project_id", "projects", 2, FALSE>>, <<"milestone_id", "milestones", 4, FALSE>>, <<"group_id", "groups", 5, FALSE>>, <<"task_status", "statuses", 1, FALSE>>, <<"assigned_by", "users", 10, FALSE>>, <<"assigned_to", "users", 8, FALSE>>, <<"task_created_by", "users", 10, FALSE>>>>, status_name |-> "IN_PROGRESS", is_task_finished |-> FALSE, task_logged_time |-> <<"1", "2", ":", "0", "0">>],
  [refs |-> <<<<"project_id", "projects", 2, FALSE>>, <<"milestone_id", "milestones", 4, FALSE>>, <<"group_id", "groups", 6, FALSE>>, <<"task_status", "statuses", 0, FALSE>>, <<"assigned_by", "users", 10, FALSE>>, <<"assigned_to", "users", 1, FALSE>>, <<"assigned_to", "users", 6, FALSE>>, <<"task_created_by", "users", 10, FALSE>>>>, status_name |-> "TODO", is_task_finished |-> FALSE, task_logged_time |-> <<"0", "0", ":", "0", "0">>],
  [refs |-> <<<<"project_id", "projects", 2, FALSE>>, <<"milestone_id", "milestones", 4, FALSE>>, <<"group_id", "groups", 5, FALSE>>, <<"task_status", "statuses", 3, FALSE>>, <<"assigned_by", "users", 10, FALSE>>, <<"assigned_to", "users", 18, FALSE>>, <<"task_created_by", "users", 10, FALSE>>>>, status_name |-> "COMPLETED", is_task_finished |-> TRUE, task_logged_time |-> <<"1", "5", ":", "3", "0">>],
  [refs |-> <<<<"project_id", "projects", 3, FALSE>>, <<"milestone_id", "milestones", 5, FALSE>>, <<"group_id", "groups", 7, FALSE>>, <<"task_status", "statuses", 1, FALSE>>, <<"assigned_by", "users", 2, FALSE>>, <<"assigned_to", "users", 8, FALSE>>, <<"task_created_by", "users", 2, FALSE>>>>, status_name |-> "IN_PROGRESS", is_task_finished |-> FALSE, task_logged_time |-> <<"0", "8", ":", "0", "0">>],
  [refs |-> <<<<"project_id", "projects", 3, FALSE>>, <<"milestone_id", "milestones", 5, FALSE>>, <<"group_id", "groups", 7, FALSE>>, <<"task_status", "statuses", 0, FALSE>>, <<"assigned_by", "users", 2, FALSE>>, <<"assigned_to", "users", 6, FALSE>>, <<"assigned_to", "users", 7, FALSE>>, <<"task_created_by", "users", 2, FALSE>>>>, status_name |-> "TODO", is_task_finished |-> FALSE, task_logged_time |-> <<"0", "0", ":", "0", "0">>],
  [refs |-> <<<<"project_id", "projects", 3, FALSE>>, <<"milestone_id", "milestones", 5, FALSE>>, <<"group_id", "groups", 8, FALSE>>, <<"task_status", "statuses", 1, FALSE>>, <<"assigned_by", "users", 2, FALSE>>, <<"assigned_to", "users", 11, FALSE>>, <<"task_created_by", "users", 2, FALSE>>>>, status_name |-> "IN_PROGRESS", is_task_finished |-> FALSE, task_logged_time |-> <<"2", "0", ":", "0", "0">>],
  [refs |-> <<<<"project_id", "projects", 4, FALSE>>, <<"milestone_id", "milestones", 6, FALSE>>, <<"group_id", "groups", 9, FALSE>>, <<"task_status", "statuses", 1, FALSE>>, <<"assigned_by", "users", 10, FALSE>>, <<"assigned_to", "users", 7, FALSE>>, <<"task_created_by", "users", 10, FALSE>>>>, status_name |-> "IN_PROGRESS", is_task_finished |-> FALSE, task_logged_time |-> <<"1", "2", ":", "0", "0">>],
  [refs |-> <<<<"project_id", "projects", 4, FALSE>>, <<"milestone_id", "milestones", 6, FALSE>>, <<"group_id", "groups", 9, FALSE>>, <<"task_status", "statuses", 0, FALSE>>, <<"assigned_by", "users", 10, FALSE>>, <<"assigned_to", "users", 9, FALSE>>, <<"task_created_by", "users", 10, FALSE>>>>, status_name |-> "TODO", is_task_finished |-> FALSE, task_logged_time |-> <<"0", "0", ":", "0", "0">>],
  [refs |-> <<<<"project_id", "projects", 4, FALSE>>, <<"milestone_id", "milestones", 6, FALSE>>, <<"group_id", "groups", 10, FALSE>>, <<"task_status", "statuses", 1, FALSE>>, <<"assigned_by", "users", 10, FALSE>>, <<"assigned_to", "users", 1, FALSE>>, <<"task_created_by", "users", 10, FALSE>>>>, status_name |-> "IN_PROGRESS", is_task_finished |-> FALSE, task_logged_time |-> <<"1", "0", ":", "0", "0">>],
  [refs |-> <<<<"project_id", "projects", 5, FALSE>>, <<"milestone_id", "milestones", 7, FALSE>>, <<"group_id", "groups", 11, FALSE>>, <<"task_status", "statuses", 0, FALSE>>, <<"assigned_by", "users", 16, FALSE>>, <<"assigned_to", "users", 4, FALSE>>, <<"task_created_by", "users", 16, FALSE>>>>, status_name |-> "TODO", is_task_finished |-> FALSE, task_logged_time |-> <<"0", "0", ":", "0", "0">>],
  [refs |-> <<<<"project_id", "projects", 5, FALSE>>, <<"milestone_id", "milestones", 7, FALSE>>, <<"group_id", "groups", 12, FALSE>>, <<"task_status", "statuses", 1, FALSE>>, <<"assigned_by", "users", 16, FALSE>>, <<"assigned_to", "users", 18, FALSE>>, <<"assigned_to", "users", 7, FALSE>>, <<"task_created_by", "users", 16, FALSE>>>>, status_name |-> "IN_PROGRESS", is_task_finished |-> FALSE, task_logged_time |-> <<"1", "8", ":", "0", "0">>],
  [refs |-> <<<<"project_id", "projects", 5, FALSE>>, <<"milestone_id", "milestones", 7, FALSE>>, <<"group_id", "groups", 12, FALSE>>, <<"task_status", "statuses", 0, FALSE>>, <<"assigned_by", "users", 16, FALSE>>, <<"assigned_to", "users", 18, FALSE>>, <<"task_created_by", "users", 16, FALSE>>>>, status_name |-> "TODO", is_task_finished |-> FALSE, task_logged_time |-> <<"0", "0", ":", "0", "0">>],
  [refs |-> <<<<"project_id", "projects", 6, FALSE>>, <<"milestone_id", "milestones", 8, FALSE>>, <<"group_id", "groups", 13, FALSE>>, <<"task_status", "statuses", 3, FALSE>>, <<"assigned_by", "users", 2, FALSE>>, <<"assigned_to", "users", 9, FALSE>>, <<"task_created_by", "users", 2, FALSE>>>>, status_name |-> "COMPLETED", is_task_finished |-> TRUE, task_logged_time |-> <<"1", "1", ":", "3", "0">>],
  [refs |-> <<<<"project_id", "projects", 6, FALSE>>, <<"milestone_id", "milestones", 8, FALSE>>, <<"group_id", "groups", 13, FALSE>>, <<"task_status", "statuses", 1, FALSE>>, <<"assigned_by", "users", 2, FALSE>>, <<"assigned_to", "users", 18, FALSE>>, <<"assigned_to", "users", 11, FALSE>>, <<"task_created_by", "users", 2, FALSE>>>>, status_name |-> "IN_PROGRESS", is_task_finished |-> FALSE, task_logged_time |-> <<"2", "4", ":", "0", "0">>],
  [refs |-> <<<<"project_id", "projects", 6, FALSE>>, <<"milestone_id", "milestones", 8, FALSE>>, <<"group_id", "groups", 14, FALSE>>, <<"task_status", "statuses", 0, FALSE>>, <<"assigned_by", "users", 2, FALSE>>, <<"assigned_to", "users", 1, FALSE>>, <<"task_created_by", "users", 2, FALSE>>>>, status_name |-> "TODO", is_task_finished |-> FALSE, task_logged_time |-> <<"0", "0", ":", "0", "0">>],
  [refs |-> <<<<"project_id", "projects", 7, FALSE>>, <<"milestone_id", "milestones", 9, FALSE>>, <<"group_id", "groups", 15, FALSE>>, <<"task_status", "statuses", 2, FALSE>>, <<"assigned_by", "users", 10, FALSE>>, <<"assigned_to", "users", 6, FALSE>>, <<"task_created_by", "users", 10, FALSE>>>>, status_name |-> "IN_REVIEW", is_task_finished |-> FALSE, task_logged_time |-> <<"2", "5", ":", "0", "0">>],
  [refs |-> <<<<"project_id", "projects", 7, FALSE>>, <<"milestone_id", "milestones", 9, FALSE>>, <<"group_id", "groups", 16, FALSE>>, <<"task_status", "statuses", 1, FALSE>>, <<"assigned_by", "users", 10, FALSE>>, <<"assigned_to", "users", 7, FALSE>>, <<"assigned_to", "users", 12, FALSE>>, <<"task_created_by", "users", 10, FALSE>>>>, status_name |-> "IN_PROGRESS", is_task_finished |-> FALSE, task_logged_time |-> <<"1", "6", ":", "0", "0">>],
  [refs |-> <<<<"project_id", "projects", 7, FALSE>>, <<"milestone_id", "milestones", 9, FALSE>>, <<"group_id", "groups", 16, FALSE>>, <<"task_status", "statuses", 0, FALSE>>, <<"assigned_by", "users", 10, FALSE>>, <<"assigned_to", "users", 14, FALSE>>, <<"task_created_by", "users", 10, FALSE>>>>, status_name |-> "TODO", is_task_finished |-> FALSE, task_logged_time |-> <<"0", "0", ":", "0", "0">>],
  [refs |-> <<<<"project_id", "projects", 8, FALSE>>, <<"milestone_id", "milestones", 11, FALSE>>, <<"group_id", "groups", 17, FALSE>>, <<"task_status", "statuses", 3, FALSE>>, <<"assigned_by", "users", 16, FALSE>>, <<"assigned_to", "users", 15, FALSE>>, <<"task_created_by", "users", 16, FALSE>>>>, status_name |-> "COMPLETED", is_task_finished |-> TRUE, task_logged_time |-> <<"2", "3", ":", "3", "0">>],
  [refs |-> <<<<"project_id", "projects", 8, FALSE>>, <<"milestone_id", "milestones", 11, FALSE>>, <<"group_id", "groups", 17, FALSE>>, <<"task_status", "statuses", 1, FALSE>>, <<"assigned_by", "users", 16, FALSE>>, <<"assigned_to", "users", 0, FALSE>>, <<"task_created_by", "users", 16, FALSE>>>>, status_name |-> "IN_PROGRESS", is_task_finished |-> FALSE, task_logged_time |-> <<"1", "8", ":", "0", "0">>],
  [refs |-> <<<<"project_id", "projects", 8, FALSE>>, <<"milestone_id", "milestones", 11, FALSE>>, <<"group_id", "groups", 18, FALSE>>, <<"task_status", "statuses", 0, FALSE>>, <<"assigned_by", "users", 16, FALSE>>, <<"assigned_to", "users", 9, FALSE>>, <<"assigned_to", "users", 19, FALSE>>, <<"task_created_by", "users", 16, FALSE>>>>, status_name |-> "TODO", is_task_finished |-> FALSE, task_logged_time |-> <<"0", "0", ":", "0", "0">>],
  [refs |-> <<<<"project_id", "projects", 9, FALSE>>, <<"milestone_id", "milestones", 13, FALSE>>, <<"group_id", "groups", 19, FALSE>>, <<"task_status", "statuses", 1, FALSE>>, <<"assigned_by", "users", 2, FALSE>>, <<"assigned_to", "users", 9, FALSE>>, <<"assigned_to", "users", 19, FALSE>>, <<"task_created_by", "users", 2, FALSE>>>>, status_name |-> "IN_PROGRESS", is_task_finished |-> FALSE, task_logged_time |-> <<"2", "2", ":", "0", "0">>],
  [refs |-> <<<<"project_id", "projects", 9, FALSE>>, <<"milestone_id", "milestones", 13, FALSE>>, <<"group_id", "groups", 19, FALSE>>, <<"task_status", "statuses", 0, FALSE>>, <<"assigned_by", "users", 2, FALSE>>, <<"assigned_to", "users", 1, FALSE>>, <<"assigned_to", "users", 14, FALSE>>, <<"task_created_by", "users", 2, FALSE>>>>, status_name |-> "TODO", is_task_finished |-> FALSE, task_logged_time |-> <<"0", "0", ":", "0", "0">>],
  [refs |-> <<<<"project_id", "projects", 9, FALSE>>, <<"milestone_id", "milestones", 13, FALSE>>, <<"group_id", "groups", 19, FALSE>>, <<"task_status", "statuses", 0, FALSE>>, <<"assigned_by", "users", 2, FALSE>>, <<"assigned_to", "users", 5, FALSE>>, <<"task_created_by", "users", 2, FALSE>>>>, status_name |-> "TODO", is_task_finished |-> FALSE, task_logged_time |-> <<"0", "0", ":", "0", "0">>]
  >>

\* TimeLog.insertMany([...]) literal, statuses.js lines 1690-2843: one entry per record,
\* refs = the <<field path, batch variable, positional index, toString()>> of every
\* `batch[i]._id` expression of the record, in source order; the other fields are the values the record supplies,
\* a time string as the sequence of its characters.
timelogsData ==
  <<
  [refs |-> <<<<"project_id", "projects", 0, FALSE>>, <<"task_id", "tasks", 0, FALSE>>, <<"user_id", "users", 1, FALSE>>>>, task_start_time |-> <<"0", "9", ":", "0", "0">>, task_end_time |-> <<"1", "3", ":", "0", "0">>, task_time_spent |-> <<"0", "4", ":", "0", "0">>, delete_status |-> "1"],
  [refs |-> <<<<"project_id", "projects", 0, FALSE>>, <<"task_id", "tasks", 0, FALSE>>, <<"user_id", "users", 1, FALSE>>>>, task_start_time |-> <<"1", "0", ":", "0", "0">>, task_end_time |-> <<"1", "3", ":", "3", "0">>, task_time_spent |-> <<"0", "3", ":", "3", "0">>, delete_status |-> "1"],
  [refs |-> <<<<"project_id", "projects", 0, FALSE>>, <<"task_id", "tasks", 1, FALSE>>, <<"user_id", "users", 0, FALSE>>>>, task_start_time |-> <<"0", "9", ":", "0", "0">>, task_end_time |-> <<"1", "7", ":", "0", "0">>, task_time_spent |-> <<"0", "8", ":", "0", "0">>, delete_status |-> "1"],
  [refs |-> <<<<"project_id", "projects", 0, FALSE>>, <<"task_id", "tasks", 1, FALSE>>, <<"user_id", "users", 0, FALSE>>>>, task_start_time |-> <<"0", "9", ":", "0", "0">>, task_end_time |-> <<"1", "3", ":", "0", "0">>, task_time_spent |-> <<"0", "4", ":", "0", "0">>, delete_status |-> "1"],
  [refs |-> <<<<"project_id", "projects", 0, FALSE>>, <<"task_id", "tasks", 3, FALSE>>, <<"user_id", "users", 0, FALSE>>>>, task_start_time |-> <<"0", "9", ":", "0", "0">>, task_end_time |-> <<"1", "7", ":", "3", "0">>, task_time_spent |-> <<"0", "8", ":", "3", "0">>, delete_status |-> "1"],
  [refs |-> <<<<"project_id", "projects", 0, FALSE>>, <<"task_id", "tasks", 5, FALSE>>, <<"user_id", "users", 6, FALSE>>>>, task_start_time |-> <<"0", "9", ":", "0", "0">>, task_end_time |-> <<"1", "7", ":", "0", "0">>, task_time_spent |-> <<"0", "8", ":", "0", "0">>, delete_status |-> "1"],
  [refs |-> <<<<"project_id", "projects", 1, FALSE>>, <<"task_id", "tasks", 6, FALSE>>, <<"user_id", "users", 0, FALSE>>>>, task_start_time |-> <<"1", "0", ":", "0", "0">>, task_end_time |-> <<"1", "5", ":", "4", "5">>, task_time_spent |-> <<"0", "5", ":", "4", "5">>, delete_status |-> "1"],
  [refs |-> <<<<"project_id", "projects", 1, FALSE>>, <<"task_id", "tasks", 7, FALSE>>, <<"user_id", "users", 7, FALSE>>>>, task_start_time |-> <<"0", "9", ":", "0", "0">>, task_end_time |-> <<"1", "7", ":", "0", "0">>, task_time_spent |-> <<"0", "8", ":", "0", "0">>, delete_status |-> "1"],
  [refs |-> <<<<"project_id", "projects", 1, FALSE>>, <<"task_id", "tasks", 7, FALSE>>, <<"user_id", "users", 7, FALSE>>>>, task_start_time |-> <<"0", "9", ":", "0", "0">>, task_end_time |-> <<"1", "7", ":", "0", "0">>, task_time_spent |-> <<"0", "8", ":", "0", "0">>, delete_status |-> "1"],
  [refs |-> <<<<"project_id", "projects", 1, FALSE>>, <<"task_id", "tasks", 8, FALSE>>, <<"user_id", "users", 15, FALSE>>>>, task_start_time |-> <<"1", "0", ":", "0", "0">>, task_end_time |-> <<"1", "8", ":", "0", "0">>, task_time_spent |-> <<"0", "8", ":", "0", "0">>, delete_status |-> "1"],
  [refs |-> <<<<"project_id", "projects", 1, FALSE>>, <<"task_id", "tasks", 8, FALSE>>, <<"user_id", "users", 15, FALSE>>>>, task_start_time |-> <<"0", "9", ":", "0", "0">>, task_end_time |-> <<"1", "8", ":", "3", "0">>, task_time_spent |-> <<"0", "9", ":", "3", "0">>, delete_status |-> "1"],
  [refs |-> <<<<"project_id", "projects", 2, FALSE>>, <<"task_id", "tasks", 10, FALSE>>, <<"user_id", "users", 8, FALSE>>>>, task_start_time |-> <<"0", "9", ":", "0", "0">>, task_end_time |-> <<"1", "7", ":", "0", "0">>, task_time_spent |-> <<"0", "8", ":", "0", "0">>, delete_status |-> "1"],
  [refs |-> <<<<"project_id", "projects", 2, FALSE>>, <<"task_id", "tasks", 10, FALSE>>, <<"user_id", "users", 8, FALSE>>>>, task_start_time |-> <<"1", "0", ":", "0", "0">>, task_end_time |-> <<"1", "4", ":", "0", "0">>, task_time_spent |-> <<"0", "4", ":", "0", "0">>, delete_status |-> "1"],
  [refs |-> <<<<"project_id", "projects", 2, FALSE>>, <<"task_id", "tasks", 12, FALSE>>, <<"user_id", "users", 18, FALSE>>>>, task_start_time |-> <<"0", "9", ":", "0", "0">>, task_end_time |-> <<"1", "7", ":", "0", "0">>, task_time_spent |-> <<"0", "8", ":", "0", "0">>, delete_status |-> "1"],
  [refs |-> <<<<"project_id", "projects", 2, FALSE>>, <<"task_id", "tasks", 12, FALSE>>, <<"user_id", "users", 18, FALSE>>>>, task_start_time |-> <<"0", "9", ":", "0", "0">>, task_end_time |-> <<"1", "6", ":", "3", "0">>, task_time_spent |-> <<"0", "7", ":", "3", "0">>, delete_status |-> "1"],
  [refs |-> <<<<"project_id", "projects", 3, FALSE>>, <<"task_id", "tasks", 13, FALSE>>, <<"user_id", "users", 8, FALSE>>>>, task_start_time |-> <<"1", "0", ":", "0", "0">>, task_end_time |-> <<"1", "8", ":", "0", "0">>, task_time_spent |-> <<"0", "8", ":", "0", "0">>, delete_status |-> "1"],
  [refs |-> <<<<"project_id", "projects", 3, FALSE>>, <<"task_id", "tasks", 15, FALSE>>, <<"user_id", "users", 11, FALSE>>>>, task_start_time |-> <<"0", "9", ":", "0", "0">>, task_end_time |-> <<"1", "7", ":", "0", "0">>, task_time_spent |-> <<"0", "8", ":", "0", "0">>, delete_status |-> "1"],
  [refs |-> <<<<"project_id", "projects", 3, FALSE>>, <<"task_id", "tasks", 15, FALSE>>, <<"user_id", "users", 11, FALSE>>>>, task_start_time |-> <<"0", "9", ":", "0", "0">>, task_end_time |-> <<"2", "1", ":", "0", "0">>, task_time_spent |-> <<"1", "2", ":", "0", "0">>, delete_status |-> "1"],
  [refs |-> <<<<"project_id", "projects", 4, FALSE>>, <<"task_id", "tasks", 16, FALSE>>, <<"user_id", "users", 7, FALSE>>>>, task_start_time |-> <<"0", "9", ":", "0", "0">>, task_end_time |-> <<"1", "7", ":", "0", "0">>, task_time_spent |-> <<"0", "8", ":", "0", "0">>, delete_status |-> "1"],
  [refs |-> <<<<"project_id", "projects", 4, FALSE>>, <<"task_id", "tasks", 16, FALSE>>, <<"user_id", "users", 7, FALSE>>>>, task_start_time |-> <<"1", "0", ":", "0", "0">>, task_end_time |-> <<"1", "4", ":", "0", "0">>, task_time_spent |-> <<"0", "4", ":", "0", "0">>, delete_status |-> "1"],
  [refs |-> <<<<"project_id", "projects", 4, FALSE>>, <<"task_id", "tasks", 18, FALSE>>, <<"user_id", "users", 1, FALSE>>>>, task_start_time |-> <<"0", "9", ":", "0", "0">>, task_end_time |-> <<"1", "7", ":", "0", "0">>, task_time_spent |-> <<"0", "8", ":", "0", "0">>, delete_status |-> "1"],
  [refs |-> <<<<"project_id", "projects", 4, FALSE>>, <<"task_id", "tasks", 18, FALSE>>, <<"user_id", "users", 1, FALSE>>>>, task_start_time |-> <<"1", "4", ":", "0", "0">>, task_end_time |-> <<"1", "6", ":", "0", "0">>, task_time_spent |-> <<"0", "2", ":", "0", "0">>, delete_status |-> "1"],
  [refs |-> <<<<"project_id", "projects", 5, FALSE>>, <<"task_id", "tasks", 20, FALSE>>, <<"user_id", "users", 18, FALSE>>>>, task_start_time |-> <<"0", "9", ":", "0", "0">>, task_end_time |-> <<"1", "7", ":", "0", "0">>, task_time_spent |-> <<"0", "8", ":", "0", "0">>, delete_status |-> "1"],
  [refs |-> <<<<"project_id", "projects", 5, FALSE>>, <<"task_id", "tasks", 20, FALSE>>, <<"user_id", "users", 7, FALSE>>>>, task_start_time |-> <<"0", "9", ":", "0", "0">>, task_end_time |-> <<"1", "9", ":", "0", "0">>, task_time_spent |-> <<"1", "0", ":", "0", "0">>, delete_status |-> "1"],
  [refs |-> <<<<"project_id", "projects", 6, FALSE>>, <<"task_id", "tasks", 22, FALSE>>, <<"user_id", "users", 9, FALSE>>>>, task_start_time |-> <<"0", "9", ":", "0", "0">>, task_end_time |-> <<"1", "7", ":", "0", "0">>, task_time_spent |-> <<"0", "8", ":", "0", "0">>, delete_status |-> "1"],
  [refs |-> <<<<"project_id", "projects", 6, FALSE>>, <<"task_id", "tasks", 22, FALSE>>, <<"user_id", "users", 9, FALSE>>>>, task_start_time |-> <<"1", "0", ":", "0", "0">>, task_end_time |-> <<"1", "3", ":", "3", "0">>, task_time_spent |-> <<"0", "3", ":", "3", "0">>, delete_status |-> "1"],
  [refs |-> <<<<"project_id", "projects", 6, FALSE>>, <<"task_id", "tasks", 23, FALSE>>, <<"user_id", "users", 18, FALSE>>>>, task_start_time |-> <<"0", "9", ":", "0", "0">>, task_end_time |-> <<"1", "7", ":", "0", "0">>, task_time_spent |-> <<"0", "8", ":", "0", "0">>, delete_status |-> "1"],
  [refs |-> <<<<"project_id", "projects", 6, FALSE>>, <<"task_id", "tasks", 23, FALSE>>, <<"user_id", "users", 11, FALSE>>>>, task_start_time |-> <<"0", "9", ":", "0", "0">>, task_end_time |-> <<"2", "1", ":", "0", "0">>, task_time_spent |-> <<"1", "2", ":", "0", "0">>, delete_status |-> "1"],
  [refs |-> <<<<"project_id", "projects", 6, FALSE>>, <<"task_id", "tasks", 23, FALSE>>, <<"user_id", "users", 18, FALSE>>>>, task_start_time |-> <<"1", "4", ":", "0", "0">>, task_end_time |-> <<"1", "8", ":", "0", "0">>, task_time_spent |-> <<"0", "4", ":", "0", "0">>, delete_status |-> "1"],
  [refs |-> <<<<"project_id", "projects", 7, FALSE>>, <<"task_id", "tasks", 25, FALSE>>, <<"user_id", "users", 6, FALSE>>>>, task_start_time |-> <<"0", "9", ":", "0", "0">>, task_end_time |-> <<"1", "7", ":", "0", "0">>, task_time_spent |-> <<"0", "8", ":", "0", "0">>, delete_status |-> "1"],
  [refs |-> <<<<"project_id", "projects", 7, FALSE>>, <<"task_id", "tasks", 25, FALSE>>, <<"user_id", "users", 6, FALSE>>>>, task_start_time |-> <<"0", "9", ":", "0", "0">>, task_end_time |-> <<"1", "7", ":", "0", "0">>, task_time_spent |-> <<"0", "8", ":", "0", "0">>, delete_status |-> "1"],
  [refs |-> <<<<"project_id", "projects", 7, FALSE>>, <<"task_id", "tasks", 25, FALSE>>, <<"user_id", "users", 6, FALSE>>>>, task_start_time |-> <<"1", "0", ":", "0", "0">>, task_end_time |-> <<"1", "9", ":", "0", "0">>, task_time_spent |-> <<"0", "9", ":", "0", "0">>, delete_status |-> "1"],
  [refs |-> <<<<"project_id", "projects", 7, FALSE>>, <<"task_id", "tasks", 26, FALSE>>, <<"user_id", "users", 7, FALSE>>>>, task_start_time |-> <<"0", "9", ":", "0", "0">>, task_end_time |-> <<"1", "7", ":", "0", "0">>, task_time_spent |-> <<"0", "8", ":", "0", "0">>, delete_status |-> "1"],
  [refs |-> <<<<"project_id", "projects", 7, FALSE>>, <<"task_id", "tasks", 26, FALSE>>, <<"user_id", "users", 12, FALSE>>>>, task_start_time |-> <<"0", "9", ":", "0", "0">>, task_end_time |-> <<"1", "7", ":", "0", "0">>, task_time_spent |-> <<"0", "8", ":", "0", "0">>, delete_status |-> "1"],
  [refs |-> <<<<"project_id", "projects", 8, FALSE>>, <<"task_id", "tasks", 28, FALSE>>, <<"user_id", "users", 15, FALSE>>>>, task_start_time |-> <<"0", "9", ":", "0", "0">>, task_end_time |-> <<"1", "7", ":", "0", "0">>, task_time_spent |-> <<"0", "8", ":", "0", "0">>, delete_status |-> "1"],
  [refs |-> <<<<"project_id", "projects", 8, FALSE>>, <<"task_id", "tasks", 28, FALSE>>, <<"user_id", "users", 15, FALSE>>>>, task_start_time |-> <<"0", "9", ":", "0", "0">>, task_end_time |-> <<"1", "7", ":", "3", "0">>, task_time_spent |-> <<"0", "8", ":", "3", "0">>, delete_status |-> "1"],
  [refs |-> <<<<"project_id", "projects", 8, FALSE>>, <<"task_id", "tasks", 28, FALSE>>, <<"user_id", "users", 15, FALSE>>>>, task_start_time |-> <<"1", "0", ":", "0", "0">>, task_end_time |-> <<"1", "7", ":", "0", "0">>, task_time_spent |-> <<"0", "7", ":", "0", "0">>, delete_status |-> "1"],
  [refs |-> <<<<"project_id", "projects", 8, FALSE>>, <<"task_id", "tasks", 29, FALSE>>, <<"user_id", "users", 0, FALSE>>>>, task_start_time |-> <<"0", "9", ":", "0", "0">>, task_end_time |-> <<"1", "7", ":", "0", "0">>, task_time_spent |-> <<"0", "8", ":", "0", "0">>, delete_status |-> "1"],
  [refs |-> <<<<"project_id", "projects", 8, FALSE>>, <<"task_id", "tasks", 29, FALSE>>, <<"user_id", "users", 0, FALSE>>>>, task_start_time |-> <<"0", "9", ":", "0", "0">>, task_end_time |-> <<"1", "9", ":", "0", "0">>, task_time_spent |-> <<"1", "0", ":", "0", "0">>, delete_status |-> "1"],
  [refs |-> <<<<"project_id", "projects", 9, FALSE>>, <<"task_id", "tasks", 31, FALSE>>, <<"user_id", "users", 9, FALSE>>>>, task_start_time |-> <<"0", "9", ":", "0", "0">>, task_end_time |-> <<"1", "7", ":", "0", "0">>, task_time_spent |-> <<"0", "8", ":", "0", "0">>, delete_status |-> "1"],
  [refs |-> <<<<"project_id", "projects", 9, FALSE>>, <<"task_id", "tasks", 31, FALSE>>, <<"user_id", "users", 19, FALSE>>>>, task_start_time |-> <<"0", "9", ":", "0", "0">>, task_end_time |-> <<"1", "8", ":", "0", "0">>, task_time_spent |-> <<"0", "9", ":", "0", "0">>, delete_status |-> "1"],
  [refs |-> <<<<"project_id", "projects", 9, FALSE>>, <<"task_id", "tasks", 31, FALSE>>, <<"user_id", "users", 9, FALSE>>>>, task_start_time |-> <<"1", "0", ":", "0", "0">>, task_end_time |-> <<"1", "5", ":", "0", "0">>, task_time_spent |-> <<"0", "5", ":", "0", "0">>, delete_status |-> "1"],
  [refs |-> <<<<"project_id", "projects", 0, FALSE>>, <<"task_id", "tasks", 1, FALSE>>, <<"user_id", "users", 0, FALSE>>>>, task_start_time |-> <<"0", "9", ":", "0", "0">>, task_end_time |-> <<"1", "2", ":", "0", "0">>, task_time_spent |-> <<"0", "3", ":", "0", "0">>, delete_status |-> "1"],
  [refs |-> <<<<"project_id", "projects", 0, FALSE>>, <<"task_id", "tasks", 3, FALSE>>, <<"user_id", "users", 0, FALSE>>>>, task_start_time |-> <<"1", "0", ":", "0", "0">>, task_end_time |-> <<"1", "4", ":", "3", "0">>, task_time_spent |-> <<"0", "4", ":", "3", "0">>, delete_status |-> "1"],
  [refs |-> <<<<"project_id", "projects", 0, FALSE>>, <<"task_id", "tasks", 5, FALSE>>, <<"user_id", "users", 6, FALSE>>>>, task_start_time |-> <<"1", "4", ":", "0", "0">>, task_end_time |-> <<"1", "8", ":", "0", "0">>, task_time_spent |-> <<"0", "4", ":", "0", "0">>, delete_status |-> "1"],
  [refs |-> <<<<"project_id", "projects", 0, FALSE>>, <<"task_id", "tasks", 2, FALSE>>, <<"user_id", "users", 1, FALSE>>>>, task_start_time |-> <<"0", "9", ":", "0", "0">>, task_end_time |-> <<"1", "3", ":", "0", "0">>, task_time_spent |-> <<"0", "4", ":", "0", "0">>, delete_status |-> "1"],
  [refs |-> <<<<"project_id", "projects", 0, FALSE>>, <<"task_id", "tasks", 4, FALSE>>, <<"user_id", "users", 0, FALSE>>>>, task_start_time |-> <<"0", "9", ":", "0", "0">>, task_end_time |-> <<"1", "2", ":", "0", "0">>, task_time_spent |-> <<"0", "3", ":", "0", "0">>, delete_status |-> "1"],
  [refs |-> <<<<"project_id", "projects", 1, FALSE>>, <<"task_id", "tasks", 7, FALSE>>, <<"user_id", "users", 7, FALSE>>>>, task_start_time |-> <<"1", "0", ":", "0", "0">>, task_end_time |-> <<"1", "6", ":", "0", "0">>, task_time_spent |-> <<"0", "6", ":", "0", "0">>, delete_status |-> "1"],
  [refs |-> <<<<"project_id", "projects", 1, FALSE>>, <<"task_id", "tasks", 8, FALSE>>, <<"user_id", "users", 15, FALSE>>>>, task_start_time |-> <<"0", "9", ":", "0", "0">>, task_end_time |-> <<"1", "3", ":", "0", "0">>, task_time_spent |-> <<"0", "4", ":", "0", "0">>, delete_status |-> "1"],
  [refs |-> <<<<"project_id", "projects", 1, FALSE>>, <<"task_id", "tasks", 9, FALSE>>, <<"user_id", "users", 7, FALSE>>>>, task_start_time |-> <<"1", "0", ":", "0", "0">>, task_end_time |-> <<"1", "4", ":", "0", "0">>, task_time_spent |-> <<"0", "4", ":", "0", "0">>, delete_status |-> "1"],
  [refs |-> <<<<"project_id", "projects", 1, FALSE>>, <<"task_id", "tasks", 6, FALSE>>, <<"user_id", "users", 0, FALSE>>>>, task_start_time |-> <<"0", "9", ":", "0", "0">>, task_end_time |-> <<"1", "1", ":", "0", "0">>, task_time_spent |-> <<"0", "2", ":", "0", "0">>, delete_status |-> "1"],
  [refs |-> <<<<"project_id", "projects", 2, FALSE>>, <<"task_id", "tasks", 10, FALSE>>, <<"user_id", "users", 8, FALSE>>>>, task_start_time |-> <<"0", "9", ":", "0", "0">>, task_end_time |-> <<"1", "5", ":", "0", "0">>, task_time_spent |-> <<"0", "6", ":", "0", "0">>, delete_status |-> "1"],
  [refs |-> <<<<"project_id", "projects", 2, FALSE>>, <<"task_id", "tasks", 11, FALSE>>, <<"user_id", "users", 1, FALSE>>>>, task_start_time |-> <<"1", "0", ":", "0", "0">>, task_end_time |-> <<"1", "6", ":", "0", "0">>, task_time_spent |-> <<"0", "6", ":", "0", "0">>, delete_status |-> "1"],
  [refs |-> <<<<"project_id", "projects", 2, FALSE>>, <<"task_id", "tasks", 12, FALSE>>, <<"user_id", "users", 18, FALSE>>>>, task_start_time |-> <<"0", "9", ":", "0", "0">>, task_end_time |-> <<"1", "2", ":", "0", "0">>, task_time_spent |-> <<"0", "3", ":", "0", "0">>, delete_status |-> "1"],
  [refs |-> <<<<"project_id", "projects", 3, FALSE>>, <<"task_id", "tasks", 13, FALSE>>, <<"user_id", "users", 8, FALSE>>>>, task_start_time |-> <<"0", "9", ":", "0", "0">>, task_end_time |-> <<"1", "3", ":", "0", "0">>, task_time_spent |-> <<"0", "4", ":", "0", "0">>, delete_status |-> "1"],
  [refs |-> <<<<"project_id", "projects", 3, FALSE>>, <<"task_id", "tasks", 14, FALSE>>, <<"user_id", "users", 6, FALSE>>>>, task_start_time |-> <<"1", "0", ":", "0", "0">>, task_end_time |-> <<"1", "8", ":", "0", "0">>, task_time_spent |-> <<"0", "8", ":", "0", "0">>, delete_status |-> "1"],
  [refs |-> <<<<"project_id", "projects", 3, FALSE>>, <<"task_id", "tasks", 15, FALSE>>, <<"user_id", "users", 11, FALSE>>>>, task_start_time |-> <<"0", "9", ":", "0", "0">>, task_end_time |-> <<"1", "7", ":", "0", "0">>, task_time_spent |-> <<"0", "8", ":", "0", "0">>, delete_status |-> "1"],
  [refs |-> <<<<"project_id", "projects", 3, FALSE>>, <<"task_id", "tasks", 14, FALSE>>, <<"user_id", "users", 7, FALSE>>>>, task_start_time |-> <<"0", "9", ":", "0", "0">>, task_end_time |-> <<"1", "5", ":", "0", "0">>, task_time_spent |-> <<"0", "6", ":", "0", "0">>, delete_status |-> "1"],
  [refs |-> <<<<"project_id", "projects", 4, FALSE>>, <<"task_id", "tasks", 16, FALSE>>, <<"user_id", "users", 7, FALSE>>>>, task_start_time |-> <<"1", "4", ":", "0", "0">>, task_end_time |-> <<"1", "7", ":", "0", "0">>, task_time_spent |-> <<"0", "3", ":", "0", "0">>, delete_status |-> "1"],
  [refs |-> <<<<"project_id", "projects", 4, FALSE>>, <<"task_id", "tasks", 17, FALSE>>, <<"user_id", "users", 9, FALSE>>>>, task_start_time |-> <<"0", "9", ":", "0", "0">>, task_end_time |-> <<"1", "2", ":", "0", "0">>, task_time_spent |-> <<"0", "3", ":", "0", "0">>, delete_status |-> "1"],
  [refs |-> <<<<"project_id", "projects", 4, FALSE>>, <<"task_id", "tasks", 18, FALSE>>, <<"user_id", "users", 1, FALSE>>>>, task_start_time |-> <<"1", "0", ":", "0", "0">>, task_end_time |-> <<"1", "6", ":", "0", "0">>, task_time_spent |-> <<"0", "6", ":", "0", "0">>, delete_status |-> "1"],
  [refs |-> <<<<"project_id", "projects", 4, FALSE>>, <<"task_id", "tasks", 17, FALSE>>, <<"user_id", "users", 9, FALSE>>>>, task_start_time |-> <<"0", "9", ":", "0", "0">>, task_end_time |-> <<"1", "7", ":", "0", "0">>, task_time_spent |-> <<"0", "8", ":", "0", "0">>, delete_status |-> "1"],
  [refs |-> <<<<"project_id", "projects", 5, FALSE>>, <<"task_id", "tasks", 19, FALSE>>, <<"user_id", "users", 4, FALSE>>>>, task_start_time |-> <<"0", "9", ":", "0", "0">>, task_end_time |-> <<"1", "7", ":", "0", "0">>, task_time_spent |-> <<"0", "8", ":", "0", "0">>, delete_status |-> "1"],
  [refs |-> <<<<"project_id", "projects", 5, FALSE>>, <<"task_id", "tasks", 20, FALSE>>, <<"user_id", "users", 18, FALSE>>>>, task_start_time |-> <<"0", "9", ":", "0", "0">>, task_end_time |-> <<"1", "3", ":", "0", "0">>, task_time_spent |-> <<"0", "4", ":", "0", "0">>, delete_status |-> "1"],
  [refs |-> <<<<"project_id", "projects", 5, FALSE>>, <<"task_id", "tasks", 21, FALSE>>, <<"user_id", "users", 18, FALSE>>>>, task_start_time |-> <<"1", "0", ":", "0", "0">>, task_end_time |-> <<"1", "8", ":", "0", "0">>, task_time_spent |-> <<"0", "8", ":", "0", "0">>, delete_status |-> "1"],
  [refs |-> <<<<"project_id", "projects", 5, FALSE>>, <<"task_id", "tasks", 19, FALSE>>, <<"user_id", "users", 4, FALSE>>>>, task_start_time |-> <<"0", "9", ":", "0", "0">>, task_end_time |-> <<"1", "7", ":", "0", "0">>, task_time_spent |-> <<"0", "8", ":", "0", "0">>, delete_status |-> "1"],
  [refs |-> <<<<"project_id", "projects", 6, FALSE>>, <<"task_id", "tasks", 23, FALSE>>, <<"user_id", "users", 18, FALSE>>>>, task_start_time |-> <<"0", "9", ":", "0", "0">>, task_end_time |-> <<"1", "7", ":", "0", "0">>, task_time_spent |-> <<"0", "8", ":", "0", "0">>, delete_status |-> "1"],
  [refs |-> <<<<"project_id", "projects", 6, FALSE>>, <<"task_id", "tasks", 23, FALSE>>, <<"user_id", "users", 11, FALSE>>>>, task_start_time |-> <<"1", "0", ":", "0", "0">>, task_end_time |-> <<"1", "4", ":", "0", "0">>, task_time_spent |-> <<"0", "4", ":", "0", "0">>, delete_status |-> "1"],
  [refs |-> <<<<"project_id", "projects", 6, FALSE>>, <<"task_id", "tasks", 24, FALSE>>, <<"user_id", "users", 1, FALSE>>>>, task_start_time |-> <<"0", "9", ":", "0", "0">>, task_end_time |-> <<"1", "7", ":", "0", "0">>, task_time_spent |-> <<"0", "8", ":", "0", "0">>, delete_status |-> "1"],
  [refs |-> <<<<"project_id", "projects", 6, FALSE>>, <<"task_id", "tasks", 22, FALSE>>, <<"user_id", "users", 9, FALSE>>>>, task_start_time |-> <<"0", "9", ":", "0", "0">>, task_end_time |-> <<"1", "2", ":", "0", "0">>, task_time_spent |-> <<"0", "3", ":", "0", "0">>, delete_status |-> "1"],
  [refs |-> <<<<"project_id", "projects", 7, FALSE>>, <<"task_id", "tasks", 26, FALSE>>, <<"user_id", "users", 7, FALSE>>>>, task_start_time |-> <<"0", "9", ":", "0", "0">>, task_end_time |-> <<"1", "3", ":", "0", "0">>, task_time_spent |-> <<"0", "4", ":", "0", "0">>, delete_status |-> "1"],
  [refs |-> <<<<"project_id", "projects", 7, FALSE>>, <<"task_id", "tasks", 26, FALSE>>, <<"user_id", "users", 12, FALSE>>>>, task_start_time |-> <<"1", "0", ":", "0", "0">>, task_end_time |-> <<"1", "6", ":", "0", "0">>, task_time_spent |-> <<"0", "6", ":", "0", "0">>, delete_status |-> "1"],
  [refs |-> <<<<"project_id", "projects", 7, FALSE>>, <<"task_id", "tasks", 27, FALSE>>, <<"user_id", "users", 14, FALSE>>>>, task_start_time |-> <<"0", "9", ":", "0", "0">>, task_end_time |-> <<"1", "7", ":", "0", "0">>, task_time_spent |-> <<"0", "8", ":", "0", "0">>, delete_status |-> "1"],
  [refs |-> <<<<"project_id", "projects", 7, FALSE>>, <<"task_id", "tasks", 25, FALSE>>, <<"user_id", "users", 6, FALSE>>>>, task_start_time |-> <<"1", "4", ":", "0", "0">>, task_end_time |-> <<"1", "8", ":", "0", "0">>, task_time_spent |-> <<"0", "4", ":", "0", "0">>, delete_status |-> "1"],
  [refs |-> <<<<"project_id", "projects", 8, FALSE>>, <<"task_id", "tasks", 29, FALSE>>, <<"user_id", "users", 0, FALSE>>>>, task_start_time |-> <<"0", "9", ":", "0", "0">>, task_end_time |-> <<"1", "7", ":", "0", "0">>, task_time_spent |-> <<"0", "8", ":", "0", "0">>, delete_status |-> "1"],
  [refs |-> <<<<"project_id", "projects", 8, FALSE>>, <<"task_id", "tasks", 30, FALSE>>, <<"user_id", "users", 9, FALSE>>>>, task_start_time |-> <<"0", "9", ":", "0", "0">>, task_end_time |-> <<"1", "7", ":", "0", "0">>, task_time_spent |-> <<"0", "8", ":", "0", "0">>, delete_status |-> "1"],
  [refs |-> <<<<"project_id", "projects", 8, FALSE>>, <<"task_id", "tasks", 30, FALSE>>, <<"user_id", "users", 19, FALSE>>>>, task_start_time |-> <<"0", "9", ":", "0", "0">>, task_end_time |-> <<"1", "8", ":", "0", "0">>, task_time_spent |-> <<"0", "9", ":", "0", "0">>, delete_status |-> "1"],
  [refs |-> <<<<"project_id", "projects", 8, FALSE>>, <<"task_id", "tasks", 28, FALSE>>, <<"user_id", "users", 15, FALSE>>>>, task_start_time |-> <<"1", "0", ":", "0", "0">>, task_end_time |-> <<"1", "6", ":", "0", "0">>, task_time_spent |-> <<"0", "6", ":", "0", "0">>, delete_status |-> "1"],
  [refs |-> <<<<"project_id", "projects", 9, FALSE>>, <<"task_id", "tasks", 31, FALSE>>, <<"user_id", "users", 19, FALSE>>>>, task_start_time |-> <<"0", "9", ":", "0", "0">>, task_end_time |-> <<"1", "7", ":", "0", "0">>, task_time_spent |-> <<"0", "8", ":", "0", "0">>, delete_status |-> "1"],
  [refs |-> <<<<"project_id", "projects", 9, FALSE>>, <<"task_id", "tasks", 32, FALSE>>, <<"user_id", "users", 1, FALSE>>>>, task_start_time |-> <<"0", "9", ":", "0", "0">>, task_end_time |-> <<"1", "7", ":", "0", "0">>, task_time_spent |-> <<"0", "8", ":", "0", "0">>, delete_status |-> "1"],
  [refs |-> <<<<"project_id", "projects", 9, FALSE>>, <<"task_id", "tasks", 32, FALSE>>, <<"user_id", "users", 14, FALSE>>>>, task_start_time |-> <<"0", "9", ":", "0", "0">>, task_end_time |-> <<"1", "8", ":", "0", "0">>, task_time_spent |-> <<"0", "9", ":", "0", "0">>, delete_status |-> "1"],
  [refs |-> <<<<"project_id", "projects", 9, FALSE>>, <<"task_id", "tasks", 33, FALSE>>, <<"user_id", "users", 5, FALSE>>>>, task_start_time |-> <<"1", "0", ":", "0", "0">>, task_end_time |-> <<"1", "6", ":", "0", "0">>, task_time_spent |-> <<"0", "6", ":", "0", "0">>, delete_status |-> "1"],
  [refs |-> <<<<"project_id", "projects", 0, FALSE>>, <<"task_id", "tasks", 0, FALSE>>, <<"user_id", "users", 2, FALSE>>>>, task_start_time |-> <<"1", "4", ":", "0", "0">>, task_end_time |-> <<"1", "6", ":", "0", "0">>, task_time_spent |-> <<"0", "2", ":", "0", "0">>, delete_status |-> "1"],
  [refs |-> <<<<"project_id", "projects", 1, FALSE>>, <<"task_id", "tasks", 7, FALSE>>, <<"user_id", "users", 7, FALSE>>>>, task_start_time |-> <<"1", "4", ":", "0", "0">>, task_end_time |-> <<"1", "7", ":", "0", "0">>, task_time_spent |-> <<"0", "3", ":", "0", "0">>, delete_status |-> "1"],
  [refs |-> <<<<"project_id", "projects", 2, FALSE>>, <<"task_id", "tasks", 11, FALSE>>, <<"user_id", "users", 10, FALSE>>>>, task_start_time |-> <<"1", "0", ":", "0", "0">>, task_end_time |-> <<"1", "2", ":", "0", "0">>, task_time_spent |-> <<"0", "2", ":", "0", "0">>, delete_status |-> "1"],
  [refs |-> <<<<"project_id", "projects", 3, FALSE>>, <<"task_id", "tasks", 15, FALSE>>, <<"user_id", "users", 11, FALSE>>>>, task_start_time |-> <<"0", "9", ":", "0", "0">>, task_end_time |-> <<"1", "3", ":", "0", "0">>, task_time_spent |-> <<"0", "4", ":", "0", "0">>, delete_status |-> "1"],
  [refs |-> <<<<"project_id", "projects", 4, FALSE>>, <<"task_id", "tasks", 18, FALSE>>, <<"user_id", "users", 1, FALSE>>>>, task_start_time |-> <<"1", "0", ":", "0", "0">>, task_end_time |-> <<"1", "5", ":", "0", "0">>, task_time_spent |-> <<"0", "5", ":", "0", "0">>, delete_status |-> "1"]
  >>

\* InviteUser.insertMany([...]) literal, statuses.js lines 2848-2909: one entry per record,
\* refs = the <<field path, batch variable, positional index, toString()>> of every
\* `batch[i]._id` expression of the record, in source order; the other fields are the values the record supplies,
\* a time string as the sequence of its characters.
inviteUsersData ==
  <<
  [refs |-> <<<<"user_id", "users", 0, FALSE>>, <<"project_id", "projects", 0, FALSE>>>>, status |-> "active", isadmin |-> TRUE],
  [refs |-> <<<<"user_id", "users", 1, FALSE>>, <<"project_id", "projects", 0, FALSE>>>>, status |-> "active", isadmin |-> FALSE],
  [refs |-> <<<<"user_id", "users", 2, FALSE>>, <<"project_id", "projects", 0, FALSE>>>>, status |-> "active", isadmin |-> TRUE],
  [refs |-> <<<<"user_id", "users", 3, FALSE>>, <<"project_id", "projects", 0, FALSE>>>>, status |-> "active", isadmin |-> FALSE],
  [refs |-> <<<<"user_id", "users", 5, FALSE>>, <<"project_id", "projects", 0, FALSE>>>>, status |-> "active", isadmin |-> FALSE],
  [refs |-> <<<<"user_id", "users", 6, FALSE>>, <<"project_id", "projects", 0, FALSE>>>>, status |-> "active", isadmin |-> FALSE],
  [refs |-> <<<<"user_id", "users", 0, FALSE>>, <<"project_id", "projects", 1, FALSE>>>>, status |-> "active", isadmin |-> TRUE],
  [refs |-> <<<<"user_id", "users", 2, FALSE>>, <<"project_id", "projects", 1, FALSE>>>>, status |-> "active", isadmin |-> TRUE],
  [refs |-> <<<<"user_id", "users", 4, FALSE>>, <<"project_id", "projects", 1, FALSE>>>>, status |-> "active", isadmin |-> FALSE],
  [refs |-> <<<<"user_id", "users", 7, FALSE>>, <<"project_id", "projects", 1, FALSE>>>>, status |-> "active", isadmin |-> FALSE],
  [refs |-> <<<<"user_id", "users", 15, FALSE>>, <<"project_id", "projects", 1, FALSE>>>>, status |-> "active", isadmin |-> FALSE],
  [refs |-> <<<<"user_id", "users", 8, FALSE>>, <<"project_id", "projects", 2, FALSE>>>>, status |-> "active", isadmin |-> FALSE],
  [refs |-> <<<<"user_id", "users", 10, FALSE>>, <<"project_id", "projects", 2, FALSE>>>>, status |-> "active", isadmin |-> TRUE],
  [refs |-> <<<<"user_id", "users", 18, FALSE>>, <<"project_id", "projects", 2, FALSE>>>>, status |-> "active", isadmin |-> FALSE],
  [refs |-> <<<<"user_id", "users", 1, FALSE>>, <<"project_id", "projects", 2, FALSE>>>>, status |-> "active", isadmin |-> FALSE],
  [refs |-> <<<<"user_id", "users", 6, FALSE>>, <<"project_id", "projects", 2, FALSE>>>>, status |-> "active", isadmin |-> FALSE],
  [refs |-> <<<<"user_id", "users", 2, FALSE>>, <<"project_id", "projects", 3, FALSE>>>>, status |-> "active", isadmin |-> TRUE],
  [refs |-> <<<<"user_id", "users", 6, FALSE>>, <<"project_id", "projects", 3, FALSE>>>>, status |-> "active", isadmin |-> FALSE],
  [refs |-> <<<<"user_id", "users", 7, FALSE>>, <<"project_id", "projects", 3, FALSE>>>>, status |-> "active", isadmin |-> FALSE],
  [refs |-> <<<<"user_id", "users", 8, FALSE>>, <<"project_id", "projects", 3, FALSE>>>>, status |-> "active", isadmin |-> FALSE],
  [refs |-> <<<<"user_id", "users", 11, FALSE>>, <<"project_id", "projects", 3, FALSE>>>>, status |-> "active", isadmin |-> FALSE],
  [refs |-> <<<<"user_id", "users", 7, FALSE>>, <<"project_id", "projects", 4, FALSE>>>>, status |-> "active", isadmin |-> FALSE],
  [refs |-> <<<<"user_id", "users", 9, FALSE>>, <<"project_id", "projects", 4, FALSE>>>>, status |-> "active", isadmin |-> FALSE],
  [refs |-> <<<<"user_id", "users", 10, FALSE>>, <<"project_id", "projects", 4, FALSE>>>>, status |-> "active", isadmin |-> TRUE],
  [refs |-> <<<<"user_id", "users", 1, FALSE>>, <<"project_id", "projects", 4, FALSE>>>>, status |-> "active", isadmin |-> FALSE],
  [refs |-> <<<<"user_id", "users", 16, FALSE>>, <<"project_id", "projects", 5, FALSE>>>>, status |-> "active", isadmin |-> TRUE],
  [refs |-> <<<<"user_id", "users", 4, FALSE>>, <<"project_id", "projects", 5, FALSE>>>>, status |-> "active", isadmin |-> FALSE],
  [refs |-> <<<<"user_id", "users", 18, FALSE>>, <<"project_id", "projects", 5, FALSE>>>>, status |-> "active", isadmin |-> FALSE],
  [refs |-> <<<<"user_id", "users", 7, FALSE>>, <<"project_id", "projects", 5, FALSE>>>>, status |-> "active", isadmin |-> FALSE],
  [refs |-> <<<<"user_id", "users", 2, FALSE>>, <<"project_id", "projects", 6, FALSE>>>>, status |-> "active", isadmin |-> TRUE],
  [refs |-> <<<<"user_id", "users", 9, FALSE>>, <<"project_id", "projects", 6, FALSE>>>>, status |-> "active", isadmin |-> FALSE],
  [refs |-> <<<<"user_id", "users", 18, FALSE>>, <<"project_id", "projects", 6, FALSE>>>>, status |-> "active", isadmin |-> FALSE],
  [refs |-> <<<<"user_id", "users", 11, FALSE>>, <<"project_id", "projects", 6, FALSE>>>>, status |-> "active", isadmin |-> FALSE],
  [refs |-> <<<<"user_id", "users", 1, FALSE>>, <<"project_id", "projects", 6, FALSE>>>>, status |-> "active", isadmin |-> FALSE],
  [refs |-> <<<<"user_id", "users", 10, FALSE>>, <<"project_id", "projects", 7, FALSE>>>>, status |-> "active", isadmin |-> TRUE],
  [refs |-> <<<<"user_id", "users", 6, FALSE>>, <<"project_id", "projects", 7, FALSE>>>>, status |-> "active", isadmin |-> FALSE],
  [refs |-> <<<<"user_id", "users", 7, FALSE>>, <<"project_id", "projects", 7, FALSE>>>>, status |-> "active", isadmin |-> FALSE],
  [refs |-> <<<<"user_id", "users", 12, FALSE>>, <<"project_id", "projects", 7, FALSE>>>>, status |-> "active", isadmin |-> FALSE],
  [refs |-> <<<<"user_id", "users", 14, FALSE>>, <<"project_id", "projects", 7, FALSE>>>>, status |-> "active", isadmin |-> FALSE],
  [refs |-> <<<<"user_id", "users", 16, FALSE>>, <<"project_id", "projects", 8, FALSE>>>>, status |-> "active", isadmin |-> TRUE],
  [refs |-> <<<<"user_id", "users", 15, FALSE>>, <<"project_id", "projects", 8, FALSE>>>>, status |-> "active", isadmin |-> FALSE],
  [refs |-> <<<<"user_id", "users", 0, FALSE>>, <<"project_id", "projects", 8, FALSE>>>>, status |-> "active", isadmin |-> FALSE],
  [refs |-> <<<<"user_id", "users", 9, FALSE>>, <<"project_id", "projects", 8, FALSE>>>>, status |-> "active", isadmin |-> FALSE],
  [refs |-> <<<<"user_id", "users", 19, FALSE>>, <<"project_id", "projects", 8, FALSE>>>>, status |-> "active", isadmin |-> FALSE],
  [refs |-> <<<<"user_id", "users", 2, FALSE>>, <<"project_id", "projects", 9, FALSE>>>>, status |-> "active", isadmin |-> TRUE],
  [refs |-> <<<<"user_id", "users", 9, FALSE>>, <<"project_id", "projects", 9, FALSE>>>>, status |-> "active", isadmin |-> FALSE],
  [refs |-> <<<<"user_id", "users", 19, FALSE>>, <<"project_id", "projects", 9, FALSE>>>>, status |-> "active", isadmin |-> FALSE],
  [refs |-> <<<<"user_id", "users", 1, FALSE>>, <<"project_id", "projects", 9, FALSE>>>>, status |-> "active", isadmin |-> FALSE],
  [refs |-> <<<<"user_id", "users", 14, FALSE>>, <<"project_id", "projects", 9, FALSE>>>>, status |-> "active", isadmin |-> FALSE],
  [refs |-> <<<<"user_id", "users", 5, FALSE>>, <<"project_id", "projects", 9, FALSE>>>>, status |-> "active", isadmin |-> FALSE]
  >>

\* Permission.insertMany([...]) literal, statuses.js lines 2914-3003: one entry per record,
\* refs = the <<field path, batch variable, positional index, toString()>> of every
\* `batch[i]._id` expression of the record, in source order; the other fields are the values the record supplies,
\* a time string as the sequence of its characters.
permissionsData ==
  <<
  [refs |-> <<<<"user_id", "users", 1, FALSE>>, <<"project_id", "projects", 0, FALSE>>, <<"assigned_by", "users", 2, FALSE>>>>],
  [refs |-> <<<<"user_id", "users", 0, FALSE>>, <<"project_id", "projects", 0, FALSE>>, <<"assigned_by", "users", 2, FALSE>>>>],
  [refs |-> <<<<"user_id", "users", 6, FALSE>>, <<"project_id", "projects", 0, FALSE>>, <<"assigned_by", "users", 2, FALSE>>>>],
  [refs |-> <<<<"user_id", "users", 7, FALSE>>, <<"project_id", "projects", 1, FALSE>>, <<"assigned_by", "users", 2, FALSE>>>>],
  [refs |-> <<<<"user_id", "users", 8, FALSE>>, <<"project_id", "projects", 2, FALSE>>, <<"assigned_by", "users", 10, FALSE>>>>],
  [refs |-> <<<<"user_id", "users", 18, FALSE>>, <<"project_id", "projects", 2, FALSE>>, <<"assigned_by", "users", 10, FALSE>>>>],
  [refs |-> <<<<"user_id", "users", 11, FALSE>>, <<"project_id", "projects", 3, FALSE>>, <<"assigned_by", "users", 2, FALSE>>>>],
  [refs |-> <<<<"user_id", "users", 7, FALSE>>, <<"project_id", "projects", 4, FALSE>>, <<"assigned_by", "users", 10, FALSE>>>>]
  >>

\* Session.insertMany([...]) literal, statuses.js lines 3008-3013: one entry per record,
\* refs = the <<field path, batch variable, positional index, toString()>> of every
\* `batch[i]._id` expression of the record, in source order; the other fields are the values the record supplies,
\* a time string as the sequence of its characters.
sessionsData ==
  <<
  [refs |-> <<>>],
  [refs |-> <<>>],
  [refs |-> <<>>],
  [refs |-> <<>>]
  >>

\* UserAvailability.insertMany([...]) literal, statuses.js lines 3018-3115: one entry per record,
\* refs = the <<field path, batch variable, positional index, toString()>> of every
\* `batch[i]._id` expression of the record, in source order; the other fields are the values the record supplies,
\* a time string as the sequence of its characters.
userAvailabilitiesData ==
  <<
  [refs |-> <<<<"user_id", "users", 0, FALSE>>, <<"project_id", "projects", 0, FALSE>>, <<"availability_session.session_id", "sessions", 0, FALSE>>, <<"availability_session.session_id", "sessions", 1, FALSE>>, <<"availability_session.session_id", "sessions", 2, FALSE>>>>],
  [refs |-> <<<<"user_id", "users", 1, FALSE>>, <<"project_id", "projects", 0, FALSE>>, <<"availability_session.session_id", "sessions", 0, FALSE>>, <<"availability_session.session_id", "sessions", 1, FALSE>>, <<"availability_session.session_id", "sessions", 2, FALSE>>>>],
  [refs |-> <<<<"user_id", "users", 0, FALSE>>, <<"project_id", "projects", 0, FALSE>>, <<"availability_session.session_id", "sessions", 0, FALSE>>, <<"availability_session.session_id", "sessions", 1, FALSE>>>>],
  [refs |-> <<<<"user_id", "users", 7, FALSE>>, <<"project_id", "projects", 1, FALSE>>, <<"availability_session.session_id", "sessions", 0, FALSE>>, <<"availability_session.session_id", "sessions", 1, FALSE>>, <<"availability_session.session_id", "sessions", 2, FALSE>>>>],
  [refs |-> <<<<"user_id", "users", 8, FALSE>>, <<"project_id", "projects", 2, FALSE>>, <<"availability_session.session_id", "sessions", 0, FALSE>>, <<"availability_session.session_id", "sessions", 1, FALSE>>>>],
  [refs |-> <<<<"user_id", "users", 11, FALSE>>, <<"project_id", "projects", 3, FALSE>>, <<"availability_session.session_id", "sessions", 0, FALSE>>, <<"availability_session.session_id", "sessions", 1, FALSE>>, <<"availability_session.session_id", "sessions", 2, FALSE>>>>],
  [refs |-> <<<<"user_id", "users", 7, FALSE>>, <<"project_id", "projects", 4, FALSE>>, <<"availability_session.session_id", "sessions", 0, FALSE>>, <<"availability_session.session_id", "sessions", 1, FALSE>>>>],
  [refs |-> <<<<"user_id", "users", 18, FALSE>>, <<"project_id", "projects", 5, FALSE>>, <<"availability_session.session_id", "sessions", 0, FALSE>>, <<"availability_session.session_id", "sessions", 1, FALSE>>, <<"availability_session.session_id", "sessions", 2, FALSE>>>>],
  [refs |-> <<<<"user_id", "users", 9, FALSE>>, <<"project_id", "projects", 6, FALSE>>, <<"availability_session.session_id", "sessions", 0, FALSE>>, <<"availability_session.session_id", "sessions", 1, FALSE>>>>],
  [refs |-> <<<<"user_id", "users", 6, FALSE>>, <<"project_id", "projects", 7, FALSE>>, <<"availability_session.session_id", "sessions", 0, FALSE>>, <<"availability_session.session_id", "sessions", 1, FALSE>>, <<"availability_session.session_id", "sessions", 2, FALSE>>>>]
  >>

\* UserBooking.insertMany([...]) literal, statuses.js lines 3120-3248: one entry per record,
\* refs = the <<field path, batch variable, positional index, toString()>> of every
\* `batch[i]._id` expression of the record, in source order; the other fields are the values the record supplies,
\* a time string as the sequence of its characters.
userBookingsData ==
  <<
  [refs |-> <<<<"user_id", "users", 0, FALSE>>, <<"bookedBy", "users", 2, FALSE>>, <<"availability_booking_session.session_id", "sessions", 0, FALSE>>, <<"availability_booking_session.session_id", "sessions", 1, FALSE>>>>],
  [refs |-> <<<<"user_id", "users", 1, FALSE>>, <<"bookedBy", "users", 2, FALSE>>, <<"availability_booking_session.session_id", "sessions", 1, FALSE>>>>],
  [refs |-> <<<<"user_id", "users", 7, FALSE>>, <<"bookedBy", "users", 2, FALSE>>, <<"availability_booking_session.session_id", "sessions", 0, FALSE>>, <<"availability_booking_session.session_id", "sessions", 1, FALSE>>>>],
  [refs |-> <<<<"user_id", "users", 8, FALSE>>, <<"bookedBy", "users", 10, FALSE>>, <<"availability_booking_session.session_id", "sessions", 0, FALSE>>>>],
  [refs |-> <<<<"user_id", "users", 11, FALSE>>, <<"bookedBy", "users", 2, FALSE>>, <<"availability_booking_session.session_id", "sessions", 1, FALSE>>>>],
  [refs |-> <<<<"user_id", "users", 18, FALSE>>, <<"bookedBy", "users", 16, FALSE>>, <<"availability_booking_session.session_id", "sessions", 0, FALSE>>, <<"availability_booking_session.session_id", "sessions", 1, FALSE>>>>],
  [refs |-> <<<<"user_id", "users", 9, FALSE>>, <<"bookedBy", "users", 2, FALSE>>, <<"availability_booking_session.session_id", "sessions", 0, FALSE>>, <<"availability_booking_session.session_id", "sessions", 1, FALSE>>>>],
  [refs |-> <<<<"user_id", "users", 6, FALSE>>, <<"bookedBy", "users", 10, FALSE>>, <<"availability_booking_session.session_id", "sessions", 2, FALSE>>>>],
  [refs |-> <<<<"user_id", "users", 3, FALSE>>, <<"bookedBy", "users", 2, FALSE>>, <<"availability_booking_session.session_id", "sessions", 0, FALSE>>>>],
  [refs |-> <<<<"user_id", "users", 5, FALSE>>, <<"bookedBy", "users", 2, FALSE>>, <<"availability_booking_session.session_id", "sessions", 1, FALSE>>, <<"availability_booking_session.session_id", "sessions", 2, FALSE>>>>],
  [refs |-> <<<<"user_id", "users", 15, FALSE>>, <<"bookedBy", "users", 16, FALSE>>, <<"availability_booking_session.session_id", "sessions", 0, FALSE>>>>],
  [refs |-> <<<<"user_id", "users", 4, FALSE>>, <<"bookedBy", "users", 16, FALSE>>, <<"availability_booking_session.session_id", "sessions", 1, FALSE>>>>],
  [refs |-> <<<<"user_id", "users", 12, FALSE>>, <<"bookedBy", "users", 10, FALSE>>, <<"availability_booking_session.session_id", "sessions", 0, FALSE>>, <<"availability_booking_session.session_id", "sessions", 1, FALSE>>>>],
  [refs |-> <<<<"user_id", "users", 14, FALSE>>, <<"bookedBy", "users", 10, FALSE>>, <<"availability_booking_session.session_id", "sessions", 2, FALSE>>>>],
  [refs |-> <<<<"user_id", "users", 19, FALSE>>, <<"bookedBy", "users", 2, FALSE>>, <<"availability_booking_session.session_id", "sessions", 0, FALSE>>, <<"availability_booking_session.session_id", "sessions", 1, FALSE>>>>]
  >>

\* LoggedUser.insertMany([...]) literal, statuses.js lines 3253-3314: one entry per record,
\* refs = the <<field path, batch variable, positional index, toString()>> of every
\* `batch[i]._id` expression of the record, in source order; the other fields are the values the record supplies,
\* a time string as the sequence of its characters.
loggedUsersData ==
  <<
  [refs |-> <<<<"user_id", "users", 0, TRUE>>>>],
  [refs |-> <<<<"user_id", "users", 1, TRUE>>>>],
  [refs |-> <<<<"user_id", "users", 2, TRUE>>>>],
  [refs |-> <<<<"user_id", "users", 3, TRUE>>>>],
  [refs |-> <<<<"user_id", "users", 6, TRUE>>>>],
  [refs |-> <<<<"user_id", "users", 7, TRUE>>>>],
  [refs |-> <<<<"user_id", "users", 8, TRUE>>>>],
  [refs |-> <<<<"user_id", "users", 11, TRUE>>>>],
  [refs |-> <<<<"user_id", "users", 14, TRUE>>>>],
  [refs |-> <<<<"user_id", "users", 15, TRUE>>>>],
  [refs |-> <<<<"user_id", "users", 18, TRUE>>>>],
  [refs |-> <<<<"user_id", "users", 19, TRUE>>>>]
  >>

Range(s) == {s[i] : i \in 1..Len(s)}

Min(a, b) == IF a < b THEN a ELSE b

\* The models the seed script imports.
Models ==
  {"Client", "Designation", "Group", "InviteUser", "LoggedUser", "Milestone",
   "Permission", "Project", "ProjectDocument", "Role", "Session", "Skill",
   "Status", "Task", "Technology", "TimeLog", "User", "UserAvailability",
   "UserBooking"}

\* Every collection of the data model: the imported models and
\* TaskUpdateHistory, which the seed script does not import.
DataModel == Models \cup {"TaskUpdateHistory"}

\* Variant of ClearList: the array without Task.deleteMany({}).
ClearListWithoutTask ==
  <<"Client", "Designation", "Group", "InviteUser", "LoggedUser", "Milestone",
    "Permission", "Project", "ProjectDocument", "Role", "Session", "Skill",
    "Status", "Technology", "TimeLog", "User", "UserAvailability",
    "UserBooking">>

\* The models whose deleteMany({}) is handed to Promise.all, in array order.
ClearList ==
  <<"Client", "Designation", "Group", "InviteUser", "LoggedUser", "Milestone",
    "Permission", "Project", "ProjectDocument", "Role", "Session", "Skill",
    "Status", "Task", "Technology", "TimeLog", "User", "UserAvailability",
    "UserBooking">>

\* Variant of PopulateOrder: the users step moved before the roles step.
PopulateOrderUsersEarly ==
  <<"clients", "designations", "skills", "users", "roles", "technologies",
    "projects", "statuses", "milestones", "groups", "tasks", "timelogs",
    "inviteUsers", "permissions", "sessions", "userAvailabilities",
    "userBookings", "loggedUsers">>

\* Variant of PopulateOrder: the seven collections without references first.
PopulateOrderLeavesFirst ==
  <<"clients", "designations", "skills", "roles", "technologies", "statuses",
    "sessions", "users", "projects", "milestones", "groups", "tasks",
    "timelogs", "inviteUsers", "permissions", "userAvailabilities",
    "userBookings", "loggedUsers">>

\* The batch consts in the order the script awaits their insertMany
\* (steps 1 to 18 of the script).
PopulateOrder ==
  <<"clients", "designations", "skills", "roles", "users", "technologies",
    "projects", "statuses", "milestones", "groups", "tasks", "timelogs",
    "inviteUsers", "permissions", "sessions", "userAvailabilities",
    "userBookings", "loggedUsers">>

\* For each batch const, the model its insertMany is called on and the array
\* literal it is called with.
StepTable ==
  [clients |-> [model |-> "Client", data |-> clientsData],
   designations |-> [model |-> "Designation", data |-> designationsData],
   skills |-> [model |-> "Skill", data |-> skillsData],
   roles |-> [model |-> "Role", data |-> rolesData],
   users |-> [model |-> "User", data |-> usersData],
   technologies |-> [model |-> "Technology", data |-> technologiesData],
   projects |-> [model |-> "Project", data |-> projectsData],
   statuses |-> [model |-> "Status", data |-> statusesData],
   milestones |-> [model |-> "Milestone", data |-> milestonesData],
   groups |-> [model |-> "Group", data |-> groupsData],
   tasks |-> [model |-> "Task", data |-> tasksData],
   timelogs |-> [model |-> "TimeLog", data |-> timelogsData],
   inviteUsers |-> [model |-> "InviteUser", data |-> inviteUsersData],
   permissions |-> [model |-> "Permission", data |-> permissionsData],
   sessions |-> [model |-> "Session", data |-> sessionsData],
   userAvailabilities |-> [model |-> "UserAvailability", data |-> userAvailabilitiesData],
   userBookings |-> [model |-> "UserBooking", data |-> userBookingsData],
   loggedUsers |-> [model |-> "LoggedUser", data |-> loggedUsersData]]

\* Populate step k: the const that receives the batch, the model, the literal.
Steps ==
  [k \in 1..Len(PopulateOrder) |->
     [var |-> PopulateOrder[k],
      model |-> StepTable[PopulateOrder[k]].model,
      data |-> StepTable[PopulateOrder[k]].data]]

NumSteps == Len(Steps)

BatchVars == DOMAIN StepTable

\* The model whose insertMany result a batch const holds.
ModelOf(v) == StepTable[v].model

\* The batch consts whose .length the success summary prints, line by line.
SummaryVars ==
  <<"clients", "designations", "skills", "roles", "users", "technologies",
    "projects", "statuses", "milestones", "groups", "tasks", "timelogs",
    "inviteUsers", "permissions", "sessions", "userAvailabilities",
    "userBookings", "loggedUsers">>

VARIABLES
  pc,           \* position of the process in seedDatabase
  runs,         \* number of times the script has been started
  connected,    \* mongoose.connect has resolved and close has not
  store,        \* the datastore: collection -> set of documents
  deletesIssued,\* the deleteMany array of this run has been evaluated
  pending,      \* deleteMany operations issued and not yet settled
  deleted,      \* deleteMany operations of this run that resolved
  deleteFailed, \* deleteMany operations of this run that rejected
  batch,        \* batch const -> identifiers returned by its insertMany
  assigned,     \* batch consts that have been initialised
  step,         \* index of the populate step the process is at
  inflight,     \* documents of the insertMany issued and not yet settled
  issued,       \* indices of the populate steps whose insertMany was issued
  failedAt,     \* index of the populate step whose insertMany rejected, or 0
  error,        \* what the try block threw: "none" when nothing
  reported,     \* the cause console.error printed in the catch block
  summary,      \* the per-collection lines of the success summary
  total,        \* the 'Total Documents' value of the summary
  closeCalled,  \* mongoose.connection.close() has been invoked in this run
  exitCode,     \* exit status of the process, -1 while it runs
  nextId,       \* last identifier handed out
  prevOk,       \* the previous run printed the summary and exited
  faulted,      \* a datastore operation has failed in this behaviour
  prevCounts,   \* collection sizes when the previous run exited
  reg           \* the schema registry: the last model operation and the
                \* documents the models hold

vars ==
  <<pc, runs, connected, store, deletesIssued, pending, deleted, deleteFailed,
    batch, assigned, step, inflight, issued, failedAt, error, reported,
    summary, total, closeCalled, exitCode, nextId, prevOk, faulted, prevCounts,
    reg>>

procVars ==
  <<deletesIssued, pending, deleted, deleteFailed, batch, assigned, step,
    inflight, issued, failedAt, error, reported, summary, total, closeCalled>>

Counts(st) == [c \in DataModel |-> Cardinality(st[c])]

\* A document that was in the store before the first run.
OldDoc == [id |-> 0, run |-> 0, pos |-> 0, refs |-> <<>>, val |-> <<>>]

\* Every variable of a run of the seed script.
seedVars ==
  <<pc, runs, connected, store, exitCode, nextId, prevOk, faulted, prevCounts,
    procVars>>

\* The registry before any model operation, at the instant the schema modules
\* have been loaded: now is the process clock, at the instants at which the
\* documents of docs were constructed.
RegIdle ==
  [op |-> "none", model |-> "none", input |-> <<>>, docs |-> <<>>, errors |-> {},
   rejected |-> FALSE, held |-> {}, result |-> FALSE, now |-> 0, at |-> <<>>]

Init ==
  /\ reg = RegIdle
  /\ pc = "idle"
  /\ runs = 0
  /\ connected = FALSE
  /\ \E old \in BOOLEAN :
       store = [c \in DataModel |-> IF old THEN {OldDoc} ELSE {}]
  /\ nextId = 0
  /\ faulted = FALSE
  /\ deletesIssued = FALSE
  /\ pending = {}
  /\ deleted = {}
  /\ deleteFailed = {}
  /\ batch = [v \in BatchVars |-> <<>>]
  /\ assigned = {}
  /\ step = 0
  /\ inflight = <<>>
  /\ issued = {}
  /\ failedAt = 0
  /\ error = "none"
  /\ reported = "none"
  /\ summary = <<>>
  /\ total = 0
  /\ closeCalled = FALSE
  /\ exitCode = -1
  /\ prevOk = FALSE
  /\ prevCounts = Counts(store)

\* `node seed.js`: a fresh process; seedDatabase() awaits mongoose.connect.
Start ==
  /\ pc \in {"idle", "exited"}
  /\ runs < MaxRuns
  /\ runs' = runs + 1
  /\ pc' = "connect"
  /\ prevOk' = (pc = "exited" /\ summary # <<>>)
  /\ prevCounts' = Counts(store)
  /\ deletesIssued' = FALSE
  /\ pending' = {}
  /\ deleted' = {}
  /\ deleteFailed' = {}
  /\ batch' = [v \in BatchVars |-> <<>>]
  /\ assigned' = {}
  /\ step' = 0
  /\ inflight' = <<>>
  /\ issued' = {}
  /\ failedAt' = 0
  /\ error' = "none"
  /\ reported' = "none"
  /\ summary' = <<>>
  /\ total' = 0
  /\ closeCalled' = FALSE
  /\ exitCode' = -1
  /\ UNCHANGED <<reg, connected, store, nextId, faulted>>

\* await mongoose.connect(...) resolves.
ConnectOk ==
  /\ pc = "connect"
  /\ connected' = TRUE
  /\ pc' = "clear"
  /\ UNCHANGED <<reg, runs, store, nextId, exitCode, prevOk, prevCounts, faulted, procVars>>

\* Variant of ConnectFail: the rejection is swallowed and the try block goes on.
ConnectFailContinues ==
  /\ pc = "connect"
  /\ ~faulted
  /\ faulted' = TRUE
  /\ error' = "connect"
  /\ pc' = "clear"
  /\ UNCHANGED <<reg, runs, connected, store, nextId, exitCode, prevOk, prevCounts,
                 deletesIssued, pending, deleted, deleteFailed, batch, assigned,
                 step, inflight, issued, failedAt, reported, summary, total,
                 closeCalled>>

\* await mongoose.connect(...) rejects: control leaves the try block.
ConnectFail ==
  /\ pc = "connect"
  /\ ~faulted
  /\ faulted' = TRUE
  /\ error' = "connect"
  /\ pc' = "catch"
  /\ UNCHANGED <<reg, runs, connected, store, nextId, exitCode, prevOk, prevCounts,
                 deletesIssued, pending, deleted, deleteFailed, batch, assigned,
                 step, inflight, issued, failedAt, reported, summary, total,
                 closeCalled>>

\* The array literal handed to Promise.all is evaluated: every deleteMany of
\* ClearList is issued before any of them is awaited.
IssueDeletes ==
  /\ pc = "clear"
  /\ deletesIssued' = TRUE
  /\ pending' = Range(ClearList)
  /\ pc' = "clearing"
  /\ UNCHANGED <<reg, runs, connected, store, nextId, exitCode, prevOk, prevCounts, faulted,
                 deleted, deleteFailed, batch, assigned, step, inflight, issued,
                 failedAt, error, reported, summary, total, closeCalled>>

PosInClearList(c) == CHOOSE i \in 1..Len(ClearList) : ClearList[i] = c

\* The outstanding deleteMany operations that may settle next.
MaySettle ==
  {c \in pending :
     \A d \in pending : PosInClearList(c) < PosInClearList(d) + MaxReorder}

\* A deleteMany({}) resolves: its collection is empty.
DeleteDone(c) ==
  /\ pc = "clearing"
  /\ c \in MaySettle
  /\ store' = [store EXCEPT ![c] = {}]
  /\ pending' = pending \ {c}
  /\ deleted' = deleted \cup {c}
  /\ UNCHANGED <<reg, pc, runs, connected, nextId, exitCode, prevOk, prevCounts, faulted,
                 deletesIssued, deleteFailed, batch, assigned, step, inflight,
                 issued, failedAt, error, reported, summary, total, closeCalled>>

\* A deleteMany({}) rejects: Promise.all rejects with the first rejection and
\* control leaves the try block. The other operations stay outstanding; they
\* are not awaited any more and end with the process.
DeleteFail(c) ==
  /\ pc = "clearing"
  /\ ~faulted
  /\ faulted' = TRUE
  /\ c \in MaySettle
  /\ pending' = pending \ {c}
  /\ deleteFailed' = deleteFailed \cup {c}
  /\ error' = "delete"
  /\ pc' = "catch"
  /\ UNCHANGED <<reg, runs, connected, store, nextId, exitCode, prevOk, prevCounts,
                 deletesIssued, deleted, batch, assigned, step, inflight,
                 issued, failedAt, reported, summary, total, closeCalled>>

\* Variant of ClearAwaited: Promise.all is not awaited.
ClearAwaitedNone == TRUE

\* What `await Promise.all([...])` waits for before the try block goes on:
\* every deleteMany has resolved.
ClearAwaited == pending = {} /\ deleteFailed = {}

\* await Promise.all([...]) resolves: the populate phase begins.
ClearDone ==
  /\ pc = "clearing"
  /\ ClearAwaited
  /\ pc' = "populate"
  /\ step' = 1
  /\ UNCHANGED <<reg, runs, connected, store, nextId, exitCode, prevOk, prevCounts, faulted,
                 deletesIssued, pending, deleted, deleteFailed, batch, assigned,
                 inflight, issued, failedAt, error, reported, summary, total,
                 closeCalled>>

\* ObjectId.prototype.toString(): the identifier as a string value.
ObjectIdToString(id) == [hex |-> id]

\* Evaluating `v[i]._id` throws: v is a const that is not initialised yet
\* (ReferenceError) or v[i] is undefined (TypeError).
Throws(ref) == ref[2] \notin assigned \/ ref[3] >= Len(batch[ref[2]])

Thrown(ref) == IF ref[2] \notin assigned THEN "ReferenceError" ELSE "TypeError"

\* Variant of RefValue: the element after the indexed one, wrapping around.
RefValueNext(ref) ==
  IF ref[4] THEN ObjectIdToString(batch[ref[2]][((ref[3] + 1) % Len(batch[ref[2]])) + 1])
            ELSE batch[ref[2]][((ref[3] + 1) % Len(batch[ref[2]])) + 1]

\* Variant of RefValue: the index is ignored and the first element read.
RefValueFirst(ref) ==
  IF ref[4] THEN ObjectIdToString(batch[ref[2]][1])
            ELSE batch[ref[2]][1]

\* Variant of RefValue: the index is ignored and the last element read.
RefValueLast(ref) ==
  IF ref[4] THEN ObjectIdToString(batch[ref[2]][Len(batch[ref[2]])])
            ELSE batch[ref[2]][Len(batch[ref[2]])]

\* The value of `v[i]._id` or `v[i]._id.toString()`.
RefValue(ref) ==
  IF ref[4] THEN ObjectIdToString(batch[ref[2]][ref[3] + 1])
            ELSE batch[ref[2]][ref[3] + 1]

\* The i-th document of the array literal of populate step k, with the
\* identifier it is given, its references resolved (refs) and the values the
\* literal supplies for its other fields (val).
BuildDoc(k, i) ==
  LET rec == Steps[k].data[i] IN
    [id |-> nextId + i, run |-> runs, pos |-> i - 1,
     val |-> [f \in DOMAIN rec \ {"refs"} |-> rec[f]],
     refs |-> [j \in 1..Len(rec.refs) |->
                 <<rec.refs[j][1], ModelOf(rec.refs[j][2]),
                   RefValue(rec.refs[j]), rec.refs[j][4]>>]]

\* The <<record, reference>> positions of the literal of step k whose
\* evaluation throws, and the first of them in evaluation order.
ThrowingRefs(k) ==
  UNION {{<<i, j>> : j \in {j \in 1..Len(Steps[k].data[i].refs) :
                              Throws(Steps[k].data[i].refs[j])}} :
         i \in 1..Len(Steps[k].data)}

FirstThrowing(k) ==
  CHOOSE p \in ThrowingRefs(k) :
    \A q \in ThrowingRefs(k) : p[1] < q[1] \/ (p[1] = q[1] /\ p[2] <= q[2])

\* Variant of IssueInsert: insertMany is issued without await and the script
\* goes on to the next step.
IssueInsertNoAwait ==
  /\ pc = "populate"
  /\ step \in 1..NumSteps
  /\ IF ThrowingRefs(step) # {}
       THEN /\ error' = Thrown(Steps[step].data[FirstThrowing(step)[1]]
                                  .refs[FirstThrowing(step)[2]])
            /\ pc' = "catch"
            /\ UNCHANGED <<inflight, issued, nextId, step>>
       ELSE /\ inflight' = [i \in 1..Len(Steps[step].data) |-> BuildDoc(step, i)]
            /\ issued' = issued \cup {step}
            /\ nextId' = nextId + Len(Steps[step].data)
            /\ step' = step + 1
            /\ pc' = "populate"
            /\ UNCHANGED error
  /\ UNCHANGED <<reg, runs, connected, store, exitCode, prevOk, prevCounts, faulted,
                 deletesIssued, pending, deleted, deleteFailed, batch, assigned,
                 failedAt, reported, summary, total, closeCalled>>

\* Populate step k: the array literal is evaluated and insertMany issued, or
\* the evaluation throws and control leaves the try block.
IssueInsert ==
  /\ pc = "populate"
  /\ step \in 1..NumSteps
  /\ IF ThrowingRefs(step) # {}
       THEN /\ error' = Thrown(Steps[step].data[FirstThrowing(step)[1]]
                                  .refs[FirstThrowing(step)[2]])
            /\ pc' = "catch"
            /\ UNCHANGED <<inflight, issued, nextId>>
       ELSE /\ inflight' = [i \in 1..Len(Steps[step].data) |-> BuildDoc(step, i)]
            /\ issued' = issued \cup {step}
            /\ nextId' = nextId + Len(Steps[step].data)
            /\ pc' = "inserting"
            /\ UNCHANGED error
  /\ UNCHANGED <<reg, runs, connected, store, exitCode, prevOk, prevCounts, faulted,
                 deletesIssued, pending, deleted, deleteFailed, batch, assigned,
                 step, failedAt, reported, summary, total, closeCalled>>

\* Variant of Written: the first document of the batch is not written.
WrittenSkipsFirst(docs) == {docs[i] : i \in 2..Len(docs)}

\* Variant of Written: the acknowledgement arrives, nothing was written.
WrittenNone(docs) == {}

\* Variant of Written: only the first document of the batch is written.
WrittenFirstOnly(docs) == {docs[1]}

\* The documents an acknowledged insertMany has written.
Written(docs) == Range(docs)

\* Variant of InsertAck: insertMany returns the documents in reverse order.
InsertAckReversed ==
  /\ pc = "inserting"
  /\ store' = [store EXCEPT ![Steps[step].model] = @ \cup Written(inflight)]
  /\ batch' = [batch EXCEPT ![Steps[step].var] =
                 [i \in 1..Len(inflight) |-> inflight[Len(inflight) + 1 - i].id]]
  /\ assigned' = assigned \cup {Steps[step].var}
  /\ inflight' = <<>>
  /\ step' = step + 1
  /\ pc' = "populate"
  /\ UNCHANGED <<reg, runs, connected, nextId, exitCode, prevOk, prevCounts, faulted,
                 deletesIssued, pending, deleted, deleteFailed, issued,
                 failedAt, error, reported, summary, total, closeCalled>>

\* await Model.insertMany([...]) resolves: the documents are in the store and
\* the batch const holds them.
InsertAck ==
  /\ pc = "inserting"
  /\ store' = [store EXCEPT ![Steps[step].model] = @ \cup Written(inflight)]
  /\ batch' = [batch EXCEPT ![Steps[step].var] =
                 [i \in 1..Len(inflight) |-> inflight[i].id]]
  /\ assigned' = assigned \cup {Steps[step].var}
  /\ inflight' = <<>>
  /\ step' = step + 1
  /\ pc' = "populate"
  /\ UNCHANGED <<reg, runs, connected, nextId, exitCode, prevOk, prevCounts, faulted,
                 deletesIssued, pending, deleted, deleteFailed, issued,
                 failedAt, error, reported, summary, total, closeCalled>>

\* Variant of InsertFail: the rejection is swallowed and the next populate
\* step is taken.
InsertFailSkips(n) ==
  /\ pc = "inserting"
  /\ ~faulted
  /\ faulted' = TRUE
  /\ n \in 0..Min(MaxPartial, Len(inflight) - 1)
  /\ store' = [store EXCEPT ![Steps[step].model] =
                 @ \cup {inflight[i] : i \in 1..n}]
  /\ inflight' = <<>>
  /\ failedAt' = step
  /\ error' = "insert"
  /\ step' = step + 1
  /\ pc' = "populate"
  /\ UNCHANGED <<reg, runs, connected, nextId, exitCode, prevOk, prevCounts,
                 deletesIssued, pending, deleted, deleteFailed, batch, assigned,
                 issued, reported, summary, total, closeCalled>>

\* await Model.insertMany([...]) rejects after the first n documents were
\* written (n = 0: validation error): control leaves the try block.
InsertFail(n) ==
  /\ pc = "inserting"
  /\ ~faulted
  /\ faulted' = TRUE
  /\ n \in 0..Min(MaxPartial, Len(inflight) - 1)
  /\ store' = [store EXCEPT ![Steps[step].model] =
                 @ \cup {inflight[i] : i \in 1..n}]
  /\ inflight' = <<>>
  /\ failedAt' = step
  /\ error' = "insert"
  /\ pc' = "catch"
  /\ UNCHANGED <<reg, runs, connected, nextId, exitCode, prevOk, prevCounts,
                 deletesIssued, pending, deleted, deleteFailed, batch, assigned,
                 step, issued, reported, summary, total, closeCalled>>

\* Variant of SumLen: the first length is left out of the sum.
RECURSIVE SumLenFromSecond(_, _)
SumLenFromSecond(vs, n) ==
  IF n <= 1 THEN 0 ELSE Len(batch[vs[n]]) + SumLenFromSecond(vs, n - 1)

\* The sum of the lengths of the first n batches of vs.
RECURSIVE SumLen(_, _)
SumLen(vs, n) == IF n = 0 THEN 0 ELSE Len(batch[vs[n]]) + SumLen(vs, n - 1)

\* The success summary: one line per entry of SummaryVars with the length of
\* that batch, and 'Total Documents', the sum of the same lengths.
PrintSummary ==
  /\ pc = "populate"
  /\ step = NumSteps + 1
  /\ summary' = [i \in 1..Len(SummaryVars) |->
                   <<ModelOf(SummaryVars[i]), Len(batch[SummaryVars[i]])>>]
  /\ total' = SumLen(SummaryVars, Len(SummaryVars))
  /\ pc' = "finally"
  /\ UNCHANGED <<reg, runs, connected, store, nextId, exitCode, prevOk, prevCounts, faulted,
                 deletesIssued, pending, deleted, deleteFailed, batch, assigned,
                 step, inflight, issued, failedAt, error, reported, closeCalled>>

\* Variant of Catch: the catch block ends the process itself.
CatchExits ==
  /\ pc = "catch"
  /\ reported' = error
  /\ exitCode' = 1
  /\ pending' = {}
  /\ pc' = "exited"
  /\ UNCHANGED <<reg, runs, connected, store, nextId, prevOk, prevCounts, faulted,
                 deletesIssued, deleted, deleteFailed, batch, assigned, step,
                 inflight, issued, failedAt, error, summary, total, closeCalled>>

\* Variant of Catch: the catch block starts the try block again.
CatchRetries ==
  /\ pc = "catch"
  /\ reported' = error
  /\ faulted' = FALSE
  /\ pc' = "connect"
  /\ UNCHANGED <<reg, runs, connected, store, nextId, exitCode, prevOk, prevCounts,
                 deletesIssued, pending, deleted, deleteFailed, batch, assigned,
                 step, inflight, issued, failedAt, error, summary, total,
                 closeCalled>>

\* catch (error): console.error prints error.message and the hints.
Catch ==
  /\ pc = "catch"
  /\ reported' = error
  /\ pc' = "finally"
  /\ UNCHANGED <<reg, runs, connected, store, nextId, exitCode, prevOk, prevCounts, faulted,
                 deletesIssued, pending, deleted, deleteFailed, batch, assigned,
                 step, inflight, issued, failedAt, error, summary, total,
                 closeCalled>>

\* finally: mongoose.connection.close() is invoked and awaited.
FinallyClose ==
  /\ pc = "finally"
  /\ closeCalled' = TRUE
  /\ pc' = "closing"
  /\ UNCHANGED <<reg, runs, connected, store, nextId, exitCode, prevOk, prevCounts, faulted,
                 deletesIssued, pending, deleted, deleteFailed, batch, assigned,
                 step, inflight, issued, failedAt, error, reported, summary,
                 total>>

\* The status process.exit() ends the process with: no argument and no
\* process.exitCode set, so 0 whatever the try block did.
ExitStatus == 0

\* close() resolves; process.exit() ends the process, dropping whatever is
\* still outstanding.
CloseAndExit ==
  /\ pc = "closing"
  /\ connected' = FALSE
  /\ pending' = {}
  /\ exitCode' = ExitStatus
  /\ pc' = "exited"
  /\ UNCHANGED <<reg, runs, store, nextId, prevOk, prevCounts, faulted, deletesIssued,
                 deleted, deleteFailed, batch, assigned, step, inflight, issued,
                 failedAt, error, reported, summary, total, closeCalled>>

\* close() rejects inside finally: process.exit() is not reached, the promise
\* of seedDatabase() rejects unhandled and the process ends with status 1, or
\* with status 0 once the event loop drains, depending on the Node version.
CloseFail ==
  /\ pc = "closing"
  /\ ~faulted
  /\ faulted' = TRUE
  /\ connected' = FALSE
  /\ pending' = {}
  /\ \E s \in {0, 1} : exitCode' = s
  /\ pc' = "exited"
  /\ UNCHANGED <<reg, runs, store, nextId, prevOk, prevCounts, deletesIssued,
                 deleted, deleteFailed, batch, assigned, step, inflight, issued,
                 failedAt, error, reported, summary, total, closeCalled>>

Next ==
  \/ Start
  \/ ConnectOk
  \/ ConnectFail
  \/ IssueDeletes
  \/ \E c \in Range(ClearList) : DeleteDone(c)
  \/ \E c \in Range(ClearList) : DeleteFail(c)
  \/ ClearDone
  \/ IssueInsert
  \/ InsertAck
  \/ \E n \in 0..MaxPartial : InsertFail(n)
  \/ PrintSummary
  \/ Catch
  \/ FinallyClose
  \/ CloseAndExit
  \/ CloseFail

Spec == Init /\ [][Next]_vars

(***************************************************************************)
(* The schema registry: the Mongoose schemas of the data model, and what   *)
(* `new Model(input)`, `doc.isDeleted()` and `Model.insertMany([...])` do   *)
(* with them.                                                              *)
(***************************************************************************)

\* JavaScript values, tagged by type.
Str(s) == <<"string", s>>
Bool(b) == <<"boolean", b>>
Null == <<"null">>
Oid(n) == <<"ObjectId", n>>
DateOf(d) == <<"Date", d>>
Arr(a) == <<"array", a>>

\* Date.prototype.toISOString(): the string form of instant t.
IsoString(t) == <<"ISO string", t>>

\* A default given as a function, `() => new Date().toISOString()`: Mongoose
\* calls it each time a document is constructed.
NowFunction == <<"function", "() => new Date().toISOString()">>

\* The instant at which the schema modules are loaded and the option objects
\* of their paths evaluated: the origin of the process clock.
LoadTime == 0

\* The options object of one schema path.  default and enum are <<>> when the
\* option is absent.  Mongoose reads `required`; `require` is a key it has no
\* meaning for, kept here as the source spells it.
Path(default, required, require, enum) ==
  [default |-> default, required |-> required, require |-> require, enum |-> enum]

\* GroupSchema, groups.js lines 5-17.
GroupSchema ==
  [group_name        |-> Path(<<Str("Group Name")>>, FALSE, FALSE, <<>>),
   group_description |-> Path(<<Null>>, FALSE, FALSE, <<>>),
   status            |-> Path(<<Str("PROGRESS")>>, FALSE, TRUE, <<{"PROGRESS", "COMPLETED"}>>),
   project_id        |-> Path(<<>>, FALSE, TRUE, <<>>),
   milestone_id      |-> Path(<<Null>>, FALSE, FALSE, <<>>),
   delete_status     |-> Path(<<Str("1")>>, FALSE, TRUE, <<{"0", "1"}>>)]

\* InviteUserSchema, part_002 lines 3-8.
InviteUserSchema ==
  [user_id    |-> Path(<<>>, FALSE, FALSE, <<>>),
   project_id |-> Path(<<>>, FALSE, FALSE, <<>>),
   status     |-> Path(<<Str("active")>>, FALSE, TRUE, <<{"active", "deleted"}>>),
   isadmin    |-> Path(<<Bool(FALSE)>>, FALSE, FALSE, <<>>)]

\* TaskSchema, part_000 lines 5-62.  An array path defaults to the empty array.
TaskSchema ==
  [project_id       |-> Path(<<>>, FALSE, TRUE, <<>>),
   milestone_id     |-> Path(<<Null>>, FALSE, FALSE, <<>>),
   parent_id        |-> Path(<<Null>>, FALSE, FALSE, <<>>),
   group_id         |-> Path(<<Null>>, FALSE, FALSE, <<>>),
   task_name        |-> Path(<<>>, FALSE, TRUE, <<>>),
   task_description |-> Path(<<Null>>, FALSE, FALSE, <<>>),
   task_status      |-> Path(<<Null>>, FALSE, FALSE, <<>>),
   status_name      |-> Path(<<Str("NEW")>>, FALSE, FALSE, <<>>),
   task_priority    |-> Path(<<Null>>, FALSE, FALSE, <<>>),
   estimate         |-> Path(<<>>, FALSE, FALSE, <<>>),
   task_start_date  |-> Path(<<Null>>, FALSE, FALSE, <<>>),
   task_end_date    |-> Path(<<Null>>, FALSE, FALSE, <<>>),
   assigned_by      |-> Path(<<Null>>, FALSE, FALSE, <<>>),
   assigned_to      |-> Path(<<Arr(<<>>)>>, FALSE, FALSE, <<>>),
   task_created_by  |-> Path(<<>>, FALSE, FALSE, <<>>),
   comments         |-> Path(<<Arr(<<>>)>>, FALSE, FALSE, <<>>),
   is_task_finished |-> Path(<<Bool(FALSE)>>, FALSE, FALSE, <<>>),
   task_logged_time |-> Path(<<Str("00:00")>>, FALSE, FALSE, <<>>)]

\* MilestoneSchema, part_006 lines 4-24.  The default of created_date is a
\* function.
MilestoneSchema ==
  [project_id           |-> Path(<<>>, FALSE, TRUE, <<>>),
   title                |-> Path(<<>>, FALSE, TRUE, <<>>),
   description          |-> Path(<<>>, FALSE, FALSE, <<>>),
   status               |-> Path(<<Str("1")>>, FALSE, TRUE, <<{"0", "1"}>>),
   created_by           |-> Path(<<>>, FALSE, TRUE, <<>>),
   created_date         |-> Path(<<NowFunction>>, FALSE, FALSE, <<>>),
   is_current_milestone |-> Path(<<Bool(FALSE)>>, FALSE, FALSE, <<>>),
   start_date           |-> Path(<<>>, FALSE, FALSE, <<>>),
   end_date             |-> Path(<<>>, FALSE, FALSE, <<>>),
   milestone_created_by |-> Path(<<>>, FALSE, FALSE, <<>>)]

\* TimelogSchema, part_004 lines 4-27.  The default of date is the value of
\* `new Date(Date.now()).toISOString()`, an expression of the options object.
TimelogSchema ==
  [project_id       |-> Path(<<>>, FALSE, TRUE, <<>>),
   task_id          |-> Path(<<Null>>, FALSE, FALSE, <<>>),
   task_description |-> Path(<<>>, FALSE, FALSE, <<>>),
   date             |-> Path(<<IsoString(LoadTime)>>, FALSE, FALSE, <<>>),
   task_start_time  |-> Path(<<Null>>, FALSE, FALSE, <<>>),
   task_end_time    |-> Path(<<Null>>, FALSE, FALSE, <<>>),
   task_time_spent  |-> Path(<<>>, FALSE, FALSE, <<>>),
   user_id          |-> Path(<<>>, FALSE, TRUE, <<>>),
   isBillable       |-> Path(<<Bool(FALSE)>>, FALSE, FALSE, <<>>),
   isBilled         |-> Path(<<Bool(FALSE)>>, FALSE, FALSE, <<>>),
   delete_status    |-> Path(<<Str("1")>>, FALSE, TRUE, <<{"0", "1"}>>)]

\* projectDocumentSchema, project_documents.js lines 2-11.
projectDocumentSchema ==
  [project_id           |-> Path(<<>>, TRUE, FALSE, <<>>),
   documentName         |-> Path(<<Null>>, FALSE, FALSE, <<>>),
   description          |-> Path(<<Null>>, FALSE, FALSE, <<>>),
   documentOriginalName |-> Path(<<Null>>, FALSE, FALSE, <<>>),
   documentUniqueName   |-> Path(<<>>, TRUE, FALSE, <<>>),
   s3Key                |-> Path(<<>>, TRUE, FALSE, <<>>),
   s3Url                |-> Path(<<>>, TRUE, FALSE, <<>>),
   documentType         |-> Path(<<Null>>, FALSE, FALSE, <<>>)]

\* mongoose.model(name, schema): the models whose schemas are written out above.
SchemaOf ==
  [Group           |-> GroupSchema,
   InviteUser      |-> InviteUserSchema,
   Task            |-> TaskSchema,
   Milestone       |-> MilestoneSchema,
   TimeLog         |-> TimelogSchema,
   ProjectDocument |-> projectDocumentSchema]

SchemaModels == DOMAIN SchemaOf

\* An input that supplies every path of the schema with a value of its type
\* that differs from the path's default; its instants are before the load.
Sample ==
  [Group |->
     [group_name |-> Str("Backend"), group_description |-> Str("API work"),
      status |-> Str("COMPLETED"), project_id |-> Oid(1), milestone_id |-> Oid(2),
      delete_status |-> Str("0")],
   InviteUser |->
     [user_id |-> Oid(1), project_id |-> Oid(2), status |-> Str("deleted"),
      isadmin |-> Bool(TRUE)],
   Task |->
     [project_id |-> Oid(1), milestone_id |-> Oid(2), parent_id |-> Oid(3),
      group_id |-> Oid(4), task_name |-> Str("Design schema"),
      task_description |-> Str("ER diagram"), task_status |-> Oid(5),
      status_name |-> Str("IN_PROGRESS"), task_priority |-> Str("HIGH"),
      estimate |-> Str("08:00"), task_start_date |-> DateOf("2024-01-20"),
      task_end_date |-> DateOf("2024-01-27"), assigned_by |-> Oid(6),
      assigned_to |-> Arr(<<Oid(7)>>), task_created_by |-> Oid(6),
      comments |-> Arr(<<Str("comment")>>), is_task_finished |-> Bool(TRUE),
      task_logged_time |-> Str("07:30")],
   Milestone |->
     [project_id |-> Oid(1), title |-> Str("Phase 1"), description |-> Str("Setup"),
      status |-> Str("0"), created_by |-> Oid(6), created_date |-> DateOf(-1),
      is_current_milestone |-> Bool(TRUE), start_date |-> DateOf("2024-01-15"),
      end_date |-> DateOf("2024-03-15"), milestone_created_by |-> Oid(6)],
   TimeLog |->
     [project_id |-> Oid(1), task_id |-> Oid(8), task_description |-> Str("Worked"),
      date |-> IsoString(-1), task_start_time |-> Str("09:00"),
      task_end_time |-> Str("12:00"), task_time_spent |-> Str("03:00"),
      user_id |-> Oid(7), isBillable |-> Bool(TRUE), isBilled |-> Bool(TRUE),
      delete_status |-> Str("0")],
   ProjectDocument |->
     [project_id |-> Oid(1), documentName |-> Str("Spec"), description |-> Str("Doc"),
      documentOriginalName |-> Str("spec.pdf"), documentUniqueName |-> Str("u-spec.pdf"),
      s3Key |-> Str("docs/u-spec.pdf"), s3Url |-> Str("https://s3/docs/u-spec.pdf"),
      documentType |-> Str("pdf")]]

\* Other string values an input may give to a path: the remaining values of an
\* enum, the default, and strings outside the enum.
Alternatives ==
  [Group |-> {<<"status", "PROGRESS">>, <<"status", "DONE">>, <<"status", "progress">>,
              <<"status", "">>, <<"delete_status", "1">>, <<"delete_status", "2">>},
   InviteUser |-> {<<"status", "active">>, <<"status", "pending">>, <<"status", "ACTIVE">>},
   Task |-> {<<"status_name", "NEW">>, <<"task_logged_time", "00:00">>},
   Milestone |-> {<<"status", "1">>, <<"status", "2">>},
   TimeLog |-> {<<"delete_status", "1">>, <<"delete_status", "2">>},
   ProjectDocument |-> {}]

\* The inputs handed to a model: the sample, with at most one path given another
\* value and at most MaxOmit paths left out.
Inputs(m) ==
  LET withAlt == {Sample[m]} \cup
                 {[Sample[m] EXCEPT ![a[1]] = Str(a[2])] : a \in Alternatives[m]}
      omits   == {S \in SUBSET DOMAIN SchemaOf[m] : Cardinality(S) <= MaxOmit}
  IN  {[f \in DOMAIN r \ S |-> r[f]] : r \in withAlt, S \in omits}

\* Variant of DefaultValue: an expression given as default is evaluated again
\* at each construction, like a function.
DefaultValueEvaluatedLate(path) ==
  IF path.default[1][1] = "function" THEN DateOf(reg.now)
  ELSE IF path.default[1][1] = "ISO string" THEN IsoString(reg.now)
  ELSE path.default[1]

\* The default of a path at the construction of a document: a function is
\* called, and its ISO string cast to the path's Date; a value is taken as is.
DefaultValue(path) ==
  IF path.default[1][1] = "function" THEN DateOf(reg.now) ELSE path.default[1]

\* Mongoose applies a path's default to a document under construction only where
\* the input leaves the path undefined; a path without default stays undefined.
ApplyDefaultsAlways(schema, input) ==
  [f \in {g \in DOMAIN schema : g \in DOMAIN input \/ schema[g].default # <<>>} |->
     IF schema[f].default # <<>> THEN DefaultValue(schema[f]) ELSE input[f]]

ApplyDefaults(schema, input) ==
  [f \in {g \in DOMAIN schema : g \in DOMAIN input \/ schema[g].default # <<>>} |->
     IF f \in DOMAIN input THEN input[f] ELSE DefaultValue(schema[f])]

\* groupSchema.methods.isDeleted, groups.js lines 21-23.
isDeletedInverted(doc) ==
  "delete_status" \in DOMAIN doc /\ doc.delete_status = Str("1")

isDeleted(doc) ==
  "delete_status" \in DOMAIN doc /\ doc.delete_status = Str("0")

\* The paths of a document that fail validation: a path with `required: true`
\* that is undefined or null, and a string of a path with `enum` that is not one
\* of the enum's values.
ValidationErrorsRequiredOnly(schema, doc) ==
  {f \in DOMAIN schema :
     schema[f].required /\ (f \notin DOMAIN doc \/ doc[f] = Null)}

ValidationErrors(schema, doc) ==
  {f \in DOMAIN schema :
     \/ schema[f].required /\ (f \notin DOMAIN doc \/ doc[f] = Null)
     \/ /\ schema[f].enum # <<>>
        /\ f \in DOMAIN doc
        /\ doc[f][1] = "string"
        /\ doc[f][2] \notin schema[f].enum[1]}

\* `new Model(input)`.
RegNew(m, input) ==
  /\ reg.op = "none"
  /\ reg' = [RegIdle EXCEPT !.op = "new", !.model = m, !.input = <<input>>,
                            !.docs = <<ApplyDefaults(SchemaOf[m], input)>>,
                            !.now = reg.now, !.at = <<reg.now>>]
  /\ UNCHANGED seedVars

\* `doc.isDeleted()` on the Group just constructed.
RegIsDeleted ==
  /\ reg.op = "new"
  /\ reg.model = "Group"
  /\ reg' = [reg EXCEPT !.op = "isDeleted", !.result = isDeleted(reg.docs[1])]
  /\ UNCHANGED seedVars

\* `Model.insertMany([sample, input])` on an empty collection: every document is
\* constructed and validated, and the batch is sent to the store only when no
\* document has a validation error; otherwise the call rejects with the first
\* error and sends nothing.
RegInsertMany(m, input) ==
  /\ reg.op = "none"
  /\ LET docs == <<ApplyDefaults(SchemaOf[m], Sample[m]), ApplyDefaults(SchemaOf[m], input)>>
         errs == [i \in 1..2 |-> ValidationErrors(SchemaOf[m], docs[i])]
         bad  == {i \in 1..2 : errs[i] # {}}
     IN  reg' = [RegIdle EXCEPT !.op = "insertMany", !.model = m,
                                !.input = <<Sample[m], input>>,
                                !.docs = docs,
                                !.errors = IF bad = {} THEN {} ELSE errs[CHOOSE i \in bad : \A j \in bad : i <= j],
                                !.rejected = bad # {},
                                !.held = IF bad = {} THEN Range(docs) ELSE {},
                                !.now = reg.now, !.at = <<reg.now, reg.now>>]
  /\ UNCHANGED seedVars

\* The next operation starts from a fresh document and an empty collection.
RegReset ==
  /\ reg.op # "none"
  /\ reg' = [RegIdle EXCEPT !.now = reg.now]
  /\ UNCHANGED seedVars

\* The models one of whose defaults comes from the clock.
ClockModels == {"TimeLog", "Milestone"}

\* Time passes in the process: before an operation, or between the two
\* constructions of a model of ClockModels.
RegTick ==
  /\ reg.op = "none" \/ (reg.op = "new" /\ reg.model \in ClockModels)
  /\ reg.now < MaxClock
  /\ reg' = [reg EXCEPT !.now = @ + 1]
  /\ UNCHANGED seedVars

\* A second `new Model(input)` in the same process, with the same input, for a
\* model of ClockModels.
RegNewAgain ==
  /\ reg.op = "new"
  /\ reg.model \in ClockModels
  /\ reg' = [reg EXCEPT !.op = "newAgain",
                        !.docs = Append(@, ApplyDefaults(SchemaOf[reg.model], reg.input[1])),
                        !.at = Append(@, reg.now)]
  /\ UNCHANGED seedVars

\* The names under which the sources register their models with
\* mongoose.model(name, schema).
Registered ==
  {"TaskUpdateHistory", "User", "LoggedUser", "Technology", "Statuses",
   "project_documents", "group", "user_availability_calenders", "Project",
   "Permission", "Task", "Skill", "milestone", "Role", "Designation",
   "user_bookings", "TimeLog", "invite_users"}

\* The <<model, path, ref>> of every `ref` the schemas and their virtuals
\* declare, except the refs 'Client' (project.js line 7) and 'Session'
\* (userAvailabilityCalender.js line 8, part_001 line 11), whose models are
\* defined outside these sources.
RefDecls ==
  {<<"Task", "project_id", "Project">>, <<"Task", "milestone_id", "milestone">>,
   <<"Task", "parent_id", "Task">>, <<"Task", "group_id", "Group">>,
   <<"Task", "task_status", "Statuses">>, <<"Task", "assigned_by", "User">>,
   <<"Task", "assigned_to", "User">>, <<"Task", "task_created_by", "User">>,
   <<"Task", "comments.user_id", "User">>,
   <<"Group", "project_id", "Project">>, <<"Group", "milestone_id", "milestone">>,
   <<"Milestone", "project_id", "Project">>, <<"Milestone", "created_by", "User">>,
   <<"Milestone", "milestone_created_by", "User">>,
   <<"TimeLog", "project_id", "Project">>, <<"TimeLog", "task_id", "Task">>,
   <<"TimeLog", "user_id", "User">>,
   <<"InviteUser", "user_id", "User">>, <<"InviteUser", "project_id", "Project">>,
   <<"Permission", "user_id", "User">>, <<"Permission", "project_id", "Project">>,
   <<"Permission", "assigned_by", "User">>,
   <<"UserBookings", "user_id", "User">>, <<"UserBookings", "bookedBy", "User">>,
   <<"UserAvailabilityCalender", "user_id", "User">>,
   <<"UserAvailabilityCalender", "project_id", "Project">>,
   <<"ProjectDocument", "project_id", "Project">>,
   <<"Project", "technologies.techId", "Technology">>,
   <<"Project", "inviteuser", "invite_users">>,
   <<"Project", "availability", "user_availability_calenders">>,
   <<"Project", "project_documents", "project_documents">>,
   <<"User", "roles", "Role">>, <<"User", "designation", "Designation">>,
   <<"User", "skills", "Skill">>,
   <<"User", "availability", "user_availability_calenders">>,
   <<"User", "bookings", "user_bookings">>,
   <<"Designation", "users", "User">>}

\* `Model.find().populate(path)`: Mongoose looks the path's ref up among the
\* registered model names, by exact string, and throws MissingSchemaError when
\* no model is registered under it.
RegPopulate(decl) ==
  /\ reg.op = "none"
  /\ reg' = [RegIdle EXCEPT !.op = "populate", !.model = decl[1],
                            !.input = <<[path |-> decl[2], ref |-> decl[3]]>>,
                            !.rejected = decl[3] \notin Registered,
                            !.errors = IF decl[3] \in Registered
                                         THEN {} ELSE {"MissingSchemaError"},
                            !.now = reg.now]
  /\ UNCHANGED seedVars

RegNext ==
  \/ \E m \in SchemaModels : \E input \in Inputs(m) : RegNew(m, input)
  \/ RegIsDeleted
  \/ \E m \in SchemaModels : \E input \in Inputs(m) : RegInsertMany(m, input)
  \/ RegReset
  \/ RegTick
  \/ RegNewAgain
  \/ \E decl \in RefDecls : RegPopulate(decl)

\* The schema modules have been loaded and the script has not been started;
\* the model operations below do not read the store, taken to be empty.
RegInit == Init /\ store = [c \in DataModel |-> {}]

RegistrySpec == RegInit /\ [][RegNext]_vars

\* Every step of a run but its start.
RunStep ==
  \/ ConnectOk
  \/ ConnectFail
  \/ IssueDeletes
  \/ \E c \in Range(ClearList) : DeleteDone(c)
  \/ \E c \in Range(ClearList) : DeleteFail(c)
  \/ ClearDone
  \/ IssueInsert
  \/ InsertAck
  \/ \E n \in 0..MaxPartial : InsertFail(n)
  \/ PrintSummary
  \/ Catch
  \/ FinallyClose
  \/ CloseAndExit
  \/ CloseFail

\* The first start of the script against the store.
FirstStart == runs = 0 /\ Start

FairNext ==
  \/ FirstStart
  \/ RunStep

\* One run of the script, over a store that is empty or holds documents, in
\* which the script keeps executing and every awaited operation eventually
\* resolves or rejects.
FairSpec == Init /\ [][FairNext]_vars /\ WF_vars(RunStep)

(***************************************************************************)
(* Properties of the runs of seedDatabase                                  *)
(***************************************************************************)

\* The batch consts whose insertMany has been issued in this run.
IssuedVars == {Steps[k].var : k \in issued}

\* The batch consts the literal of populate step k reads identifiers from.
RefVars ==
  [k \in 1..NumSteps |->
     UNION {{Steps[k].data[i].refs[j][2] : j \in 1..Len(Steps[k].data[i].refs)} :
            i \in 1..Len(Steps[k].data)}]

\* C1: dependency order. Every insertMany that has been issued reads
\* identifiers only from batch consts whose own insertMany has already
\* returned, and no populate step throws a ReferenceError by reading a batch
\* that has not been inserted yet.
DependencyOrder ==
  /\ error # "ReferenceError"
  /\ reported # "ReferenceError"
  /\ \A k \in issued : RefVars[k] \subseteq assigned

\* The TimeLog insert, which reads projects, tasks and users, is outstanding.
DependencyOrderWitness ==
  /\ pc = "inserting"
  /\ Steps[step].var = "timelogs"
  /\ RefVars[step] = {"projects", "tasks", "users"}

\* C2: referential integrity. Once a run has printed the success summary,
\* every reference of every document the run seeded (top-level or embedded,
\* ObjectId or, for LoggedUser.user_id, its string) is the identifier of a
\* document held by the referenced collection, and every positional index of
\* the literals is within the batch it indexes.
ReferentialIntegrity ==
  summary # <<>> =>
    /\ \A c \in DataModel : \A d \in store[c] :
         d.run = runs =>
           \A j \in 1..Len(d.refs) :
             \E t \in store[d.refs[j][2]] :
               IF d.refs[j][4]
                 THEN ObjectIdToString(t.id) = d.refs[j][3]
                 ELSE t.id = d.refs[j][3]
    /\ \A k \in 1..NumSteps : \A i \in 1..Len(Steps[k].data) :
         \A j \in 1..Len(Steps[k].data[i].refs) :
           Steps[k].data[i].refs[j][3] < Len(batch[Steps[k].data[i].refs[j][2]])

\* A run has succeeded and its LoggedUser and Task documents, with their
\* references, are in the store.
ReferentialIntegrityWitness ==
  /\ summary # <<>>
  /\ pc = "exited"
  /\ \E d \in store["LoggedUser"] : d.run = runs /\ Len(d.refs) = 1
  /\ \E d \in store["Task"] : d.run = runs /\ Len(d.refs) > 7

\* C3: clear before populate. An insertMany is issued only when every one of
\* the 19 deleteMany operations of the run has resolved: none is outstanding
\* and none has rejected.
ClearBeforePopulate ==
  issued # {} =>
    /\ deletesIssued
    /\ pending = {}
    /\ deleteFailed = {}
    /\ deleted = Models
    /\ Cardinality(deleted) = 19

\* The first insertMany of a run is outstanding.
ClearBeforePopulateWitness ==
  /\ pc = "inserting"
  /\ issued = {1}
  /\ deleted = Models

\* C4: idempotent reset. When a run that printed the summary follows a run
\* that printed the summary, each of the 19 collections holds as many
\* documents after the second run as after the first.
IdempotentCounts ==
  (pc = "exited" /\ summary # <<>> /\ prevOk) =>
    \A c \in Models : Cardinality(store[c]) = prevCounts[c]

\* The second of two successful runs has exited with a populated store.
IdempotentCountsWitness ==
  /\ pc = "exited"
  /\ summary # <<>>
  /\ prevOk
  /\ runs = 2
  /\ Cardinality(store["Task"]) = 34
  /\ prevCounts["Task"] = 34

\* C5: teardown. Whenever the process has ended, whatever the try block did,
\* mongoose.connection.close() was invoked in that run.
CloseOnEveryExit == pc = "exited" => closeCalled

\* The process has ended after a deleteMany of the clear phase rejected.
CloseOnEveryExitWitness ==
  /\ pc = "exited"
  /\ error = "delete"
  /\ closeCalled

\* C6: fail-fast. Once the insertMany of populate step k has rejected, the
\* steps whose insertMany was issued are exactly 1..k, the summary is not
\* printed, the catch block reports the insert error and the connection close
\* is invoked before the process ends.
InsertFailureAborts ==
  failedAt # 0 =>
    /\ issued = 1..failedAt
    /\ summary = <<>>
    /\ error = "insert"
    /\ pc \in {"catch", "finally", "closing", "exited"}
    /\ pc \in {"finally", "closing", "exited"} => reported = "insert"
    /\ pc = "exited" => closeCalled

\* The process has ended after the insertMany of a step that is not the last
\* one rejected, leaving documents of earlier steps in the store.
InsertFailureAbortsWitness ==
  /\ pc = "exited"
  /\ failedAt \in 2..(NumSteps - 1)
  /\ store["Client"] # {}

\* C7: connection failure. When mongoose.connect rejects, the run issues no
\* deleteMany and no insertMany, no step of the run changes the store, and the
\* catch block reports the connection error.
ConnectFailureLeavesStore ==
  /\ [](error = "connect" =>
          /\ ~deletesIssued
          /\ issued = {}
          /\ pc \in {"catch", "finally", "closing", "exited"}
          /\ pc \in {"finally", "closing", "exited"} => reported = "connect")
  /\ [][error' = "connect" => store' = store]_vars

\* The process has ended after a failed connect, with the documents seeded by
\* an earlier run still in the store.
ConnectFailureLeavesStoreWitness ==
  /\ pc = "exited"
  /\ error = "connect"
  /\ reported = "connect"
  /\ Cardinality(store["Task"]) = 34

\* C8: exit status. A run that failed has reported the cause and ended with a
\* non-zero exit status; a run that ends with status zero has not failed.
ExitStatusReflectsOutcome ==
  pc = "exited" =>
    /\ error # "none" => (reported = error /\ exitCode # 0)
    /\ exitCode = 0 => error = "none"

\* C9: completeness. Once a run has printed the success summary, every
\* collection the clear phase empties holds documents seeded by that run and
\* has a line in the summary.
AllClearedCollectionsSeeded ==
  summary # <<>> =>
    \A c \in Range(ClearList) :
      /\ \E d \in store[c] : d.run = runs
      /\ \E i \in 1..Len(summary) : summary[i][1] = c

\* C10 as stated: the seven collections without references are populated
\* before the User insert is issued, and Session before Project, Milestone,
\* Group, Task, TimeLog, InviteUser and Permission.
ContractStepOrder ==
  /\ "users" \in IssuedVars =>
       {"clients", "designations", "skills", "roles", "technologies",
        "statuses", "sessions"} \subseteq assigned
  /\ \A v \in {"projects", "milestones", "groups", "tasks", "timelogs",
               "inviteUsers", "permissions"} :
       v \in IssuedVars => "sessions" \in assigned

\* C10 amended: the inserts are issued in the order of the script's steps 1 to
\* 18, each after the previous one has returned. When the User insert is
\* issued Client, Designation, Skill and Role are populated and Technology,
\* Status and Session are not; Session is populated after Project, Milestone,
\* Group, Task, TimeLog, InviteUser and Permission and before
\* UserAvailability and UserBooking.
ScriptStepOrder ==
  LET order == <<"clients", "designations", "skills", "roles", "users",
                 "technologies", "projects", "statuses", "milestones",
                 "groups", "tasks", "timelogs", "inviteUsers", "permissions",
                 "sessions", "userAvailabilities", "userBookings",
                 "loggedUsers">>
  IN /\ IssuedVars = {order[i] : i \in 1..Cardinality(issued)}
     /\ assigned = {order[i] : i \in 1..Cardinality(assigned)}
     /\ Cardinality(issued) - Cardinality(assigned) \in {0, 1}
     /\ "users" \in IssuedVars =>
          /\ {"clients", "designations", "skills", "roles"} \subseteq assigned
          /\ (pc = "inserting" /\ Steps[step].var = "users") =>
               assigned \cap {"technologies", "statuses", "sessions"} = {}
     /\ "sessions" \in IssuedVars =>
          {"projects", "milestones", "groups", "tasks", "timelogs",
           "inviteUsers", "permissions"} \subseteq assigned
     /\ \A v \in {"userAvailabilities", "userBookings"} :
          v \in IssuedVars => "sessions" \in assigned

\* The Session insert is outstanding, after the Permission insert returned.
ScriptStepOrderWitness ==
  /\ pc = "inserting"
  /\ Steps[step].var = "sessions"
  /\ "permissions" \in assigned
  /\ "users" \in assigned

(***************************************************************************)
(* Properties of the seeded data                                           *)
(***************************************************************************)

\* The identifiers document d holds at reference path p.
RefsAt(d, p) == {d.refs[j][3] : j \in {i \in 1..Len(d.refs) : d.refs[i][1] = p}}

\* The documents of collection c seeded by the current run.
Seeded(c) == {d \in store[c] : d.run = runs /\ d # OldDoc}

\* The decimal digit a character stands for.
Digit(ch) == CHOOSE n \in 0..9 : <<"0", "1", "2", "3", "4", "5", "6", "7", "8", "9">>[n + 1] = ch

\* Variant of Minutes: the digits read as one decimal number.
MinutesDecimal(s) == (Digit(s[1]) * 10 + Digit(s[2])) * 100 + Digit(s[4]) * 10 + Digit(s[5])

\* The minutes an "HH:MM" string stands for.
Minutes(s) == (Digit(s[1]) * 10 + Digit(s[2])) * 60 + Digit(s[4]) * 10 + Digit(s[5])

\* The TimeLogs of the current run that reference task t.
LogsOf(t) == {l \in Seeded("TimeLog") : t.id \in RefsAt(l, "task_id")}

RECURSIVE SumSpent(_)
SumSpent(logs) ==
  IF logs = {} THEN 0
  ELSE LET l == CHOOSE x \in logs : TRUE
       IN  Minutes(l.val.task_time_spent) + SumSpent(logs \ {l})

\* C15: after a successful run every Task's task_logged_time is the sum of the
\* task_time_spent of the TimeLogs that reference the task, and it is "00:00"
\* exactly when no TimeLog references the task.
LoggedTimeIsSumOfTimeLogs ==
  summary # <<>> =>
    \A t \in Seeded("Task") :
      /\ Minutes(t.val.task_logged_time) = SumSpent(LogsOf(t))
      /\ (t.val.task_logged_time = <<"0", "0", ":", "0", "0">>) <=> (LogsOf(t) = {})

\* The first Task of the literal says 07:30 and its three TimeLogs add up to
\* 09:30; the third Task says 00:00 and has a TimeLog of 04:00.
LoggedTimeDiffers ==
  /\ summary # <<>>
  /\ \E t \in Seeded("Task") :
       /\ t.pos = 0
       /\ Minutes(t.val.task_logged_time) = 450
       /\ SumSpent(LogsOf(t)) = 570
  /\ \E t \in Seeded("Task") :
       /\ t.pos = 2
       /\ t.val.task_logged_time = <<"0", "0", ":", "0", "0">>
       /\ SumSpent(LogsOf(t)) = 240

\* C16: after a successful run every Task's status_name is the task_status of
\* the Status document its task_status reference names.
StatusNameMatchesStatus ==
  summary # <<>> =>
    \A t \in Seeded("Task") :
      /\ RefsAt(t, "task_status") # {}
      /\ \A sid \in RefsAt(t, "task_status") :
           \E s \in Seeded("Status") :
             s.id = sid /\ s.val.task_status = t.val.status_name

StatusNameMatchesStatusWitness ==
  /\ summary # <<>>
  /\ \E t \in Seeded("Task") : \E s \in Seeded("Status") :
       /\ s.id \in RefsAt(t, "task_status")
       /\ t.val.status_name = "IN_REVIEW"
       /\ s.val.task_status = "IN_REVIEW"
       /\ s.pos = 2

\* The seeded Milestones of project p that are marked current.
CurrentMilestones(p) ==
  {m \in store["Milestone"] :
     m # OldDoc /\ p.id \in RefsAt(m, "project_id") /\ m.val.is_current_milestone}

\* C17: no seeded Project ever has more than one Milestone whose
\* is_current_milestone is true.
OneCurrentMilestone ==
  \A p \in store["Project"] : p # OldDoc => Cardinality(CurrentMilestones(p)) <= 1

\* A project with two milestones, exactly one of them current.
OneCurrentMilestoneWitness ==
  /\ summary # <<>>
  /\ \E p \in Seeded("Project") :
       /\ Cardinality({m \in Seeded("Milestone") : p.id \in RefsAt(m, "project_id")}) = 2
       /\ Cardinality(CurrentMilestones(p)) = 1

\* C18: after a successful run no document that was in the store before the run
\* is left in any collection of the data model, TaskUpdateHistory and
\* ProjectDocument included.
CleanStateWhateverBefore ==
  summary # <<>> => \A c \in DataModel : \A d \in store[c] : d.run = runs /\ d # OldDoc

\* What the clear phase does establish: after a successful run each of the 19
\* collections the script imports holds exactly the documents of its literal
\* (ProjectDocument none) and none from before the run, while TaskUpdateHistory
\* still holds what it held before.
CleanImportedCollections ==
  /\ summary # <<>> =>
       /\ \A c \in Models : \A d \in store[c] : d.run = runs /\ d # OldDoc
       /\ \A k \in 1..NumSteps :
            Cardinality(store[Steps[k].model]) = Len(Steps[k].data)
       /\ store["ProjectDocument"] = {}
  /\ store["TaskUpdateHistory"] \subseteq {OldDoc}
  /\ prevCounts["TaskUpdateHistory"] = Cardinality(store["TaskUpdateHistory"])

\* A successful run over a store that held documents before it: the imported
\* collections are clean, the old TaskUpdateHistory document is still there.
StaleHistorySurvives ==
  /\ summary # <<>>
  /\ pc = "exited"
  /\ OldDoc \in store["TaskUpdateHistory"]
  /\ store["ProjectDocument"] = {}
  /\ \A d \in store["Task"] : d.run = runs /\ d # OldDoc

RECURSIVE SumCounts(_, _)
SumCounts(s, n) == IF n = 0 THEN 0 ELSE s[n][2] + SumCounts(s, n - 1)

RECURSIVE SumStore(_)
SumStore(cs) ==
  IF cs = {} THEN 0
  ELSE LET c == CHOOSE x \in cs : TRUE
       IN  Cardinality(store[c]) + SumStore(cs \ {c})

\* C19: the 'Total Documents' a successful run prints is the sum of the
\* per-collection counts it prints, and the number of documents the 19 imported
\* collections hold from then until the process has exited.
TotalIsSumOfCounts ==
  summary # <<>> =>
    /\ total = SumCounts(summary, Len(summary))
    /\ total = SumStore(Models)
    /\ \A i \in 1..Len(summary) : summary[i][2] = Cardinality(store[summary[i][1]])

TotalIsSumOfCountsWitness ==
  /\ summary # <<>>
  /\ pc = "exited"
  /\ total = 349
  /\ SumStore(Models) = 349
  /\ Len(summary) = 18

\* The populate steps whose insertMany has been issued and has neither resolved
\* nor rejected.
Outstanding == {k \in issued : Steps[k].var \notin assigned /\ k # failedAt}

\* C20: at most one insertMany is outstanding at any time, it is the one of the
\* current step, and when an insertMany has been issued every earlier step's
\* insertMany has resolved.
PopulateSequential ==
  /\ Cardinality(Outstanding) <= 1
  /\ Outstanding # {} => pc = "inserting" /\ Outstanding = {step}
  /\ \A k \in issued : \A j \in 1..(k - 1) : j \in issued /\ Steps[j].var \in assigned

PopulateSequentialWitness ==
  /\ pc = "inserting"
  /\ step = 12
  /\ Outstanding = {12}
  /\ \A j \in 1..11 : Steps[j].var \in assigned
  /\ store["TimeLog"] = {}

(***************************************************************************)
(* Properties of the schemas                                               *)
(***************************************************************************)

\* The value the input of the registry's operation gives to path f, <<>> when
\* the input leaves the path out.
Supplied(f) ==
  LET input == reg.input[Len(reg.input)]
  IN  IF f \in DOMAIN input THEN <<input[f]>> ELSE <<>>

\* C11: isDeleted() of a Group returns true exactly when the group's
\* delete_status is '0'; a Group constructed without a delete_status has the
\* default '1' and isDeleted() returns false for it.
GroupIsDeletedPolarity ==
  reg.op = "isDeleted" =>
    /\ reg.result <=> (Supplied("delete_status") = <<Str("0")>>)
    /\ reg.result <=> (reg.docs[1].delete_status = Str("0"))
    /\ Supplied("delete_status") = <<>> =>
         reg.docs[1].delete_status = Str("1") /\ ~reg.result

GroupIsDeletedPolarityWitness ==
  /\ reg.op = "isDeleted"
  /\ Supplied("delete_status") = <<>>
  /\ reg.docs[1].delete_status = Str("1")
  /\ ~reg.result

\* The string values the schemas allow for status.
StatusDomain ==
  [Group |-> {"PROGRESS", "COMPLETED"}, InviteUser |-> {"active", "deleted"}]

\* The registry's insertMany was handed a Group or InviteUser whose status is a
\* string outside the schema's value domain.
StatusOutsideDomain ==
  /\ reg.op = "insertMany"
  /\ reg.model \in DOMAIN StatusDomain
  /\ Supplied("status") # <<>>
  /\ Supplied("status")[1][1] = "string"
  /\ Supplied("status")[1][2] \notin StatusDomain[reg.model]

TaskDefaults ==
  reg.op = "new" /\ reg.model = "Task" =>
    /\ Supplied("task_logged_time") = <<>> => reg.docs[1].task_logged_time = Str("00:00")
    /\ Supplied("status_name") = <<>> => reg.docs[1].status_name = Str("NEW")
    /\ Supplied("is_task_finished") = <<>> => reg.docs[1].is_task_finished = Bool(FALSE)
    /\ \A f \in DOMAIN reg.input[1] : reg.docs[1][f] = reg.input[1][f]

TaskDefaultsWitness ==
  /\ reg.op = "new"
  /\ reg.model = "Task"
  /\ Supplied("task_logged_time") = <<>>
  /\ Supplied("status_name") = <<>>
  /\ Supplied("is_task_finished") = <<Bool(TRUE)>>
  /\ reg.docs[1].task_logged_time = Str("00:00")
  /\ reg.docs[1].status_name = Str("NEW")
  /\ reg.docs[1].is_task_finished = Bool(TRUE)

\* The paths the data model calls required.
RequiredPaths ==
  [Group           |-> {"project_id"},
   Task            |-> {"project_id", "task_name"},
   Milestone       |-> {"project_id", "title", "created_by"},
   TimeLog         |-> {"project_id", "user_id"},
   ProjectDocument |-> {"project_id", "documentUniqueName", "s3Key", "s3Url"}]

\* C14: an insertMany of a record that leaves out a path the data model calls
\* required rejects with a validation error on that path and stores nothing.
RequiredPathsEnforced ==
  reg.op = "insertMany" /\ reg.model \in DOMAIN RequiredPaths =>
    \A f \in RequiredPaths[reg.model] :
      Supplied(f) = <<>> => reg.rejected /\ f \in reg.errors /\ reg.held = {}

\* A Group without project_id has been stored.
GroupWithoutProjectStored ==
  /\ reg.op = "insertMany"
  /\ reg.model = "Group"
  /\ Supplied("project_id") = <<>>
  /\ ~reg.rejected
  /\ \E d \in reg.held : "project_id" \notin DOMAIN d

\* The four `required: true` paths of ProjectDocument are enforced.
DocumentPathsEnforced ==
  reg.op = "insertMany" /\ reg.model = "ProjectDocument" =>
    \A f \in RequiredPaths.ProjectDocument :
      Supplied(f) = <<>> => reg.rejected /\ f \in reg.errors /\ reg.held = {}

(***************************************************************************)
(* Properties of failed runs                                               *)
(***************************************************************************)

\* The collection of populate step k holds the whole batch of its literal, all
\* of it written by the current run.
HoldsBatch(k) ==
  /\ Cardinality(store[Steps[k].model]) = Len(Steps[k].data)
  /\ \A d \in store[Steps[k].model] : d.run = runs /\ d # OldDoc

\* The collection of populate step k holds only documents of the batch the
\* current run issued for it.
HoldsPartOfBatch(k) ==
  \A d \in store[Steps[k].model] :
    /\ d.run = runs
    /\ d # OldDoc
    /\ d.pos \in 0..(Len(Steps[k].data) - 1)

\* Prefix form: the steps before k complete, step k partial, the steps after k
\* empty.
PrefixForm(k) ==
  /\ \A j \in 1..(k - 1) : HoldsBatch(j)
  /\ HoldsPartOfBatch(k)
  /\ \A j \in (k + 1)..NumSteps : store[Steps[j].model] = {}

NoRetry ==
  error # "none" /\ runs' = runs =>
    /\ issued' = issued
    /\ deletesIssued' = deletesIssued
    /\ error' = error
    /\ pc' \in {"catch", "finally", "closing", "exited"}

\* C22: if every awaited operation eventually resolves or rejects, every run
\* that has been started reaches the finally block, calls close and ends the
\* process, and a failed operation is never retried.
RunTerminates ==
  /\ (pc = "connect") ~> (pc = "exited" /\ closeCalled)
  /\ [][NoRetry]_vars

\* A run has ended after a deleteMany rejected.
RunTerminatesWitness ==
  /\ pc = "exited"
  /\ closeCalled
  /\ error = "delete"
  /\ reported = "delete"
  /\ issued = {}

(***************************************************************************)
(* Properties of the seeded data: flags, hierarchy, membership, times      *)
(***************************************************************************)

\* C23: after a successful run a Task's is_task_finished is true exactly when
\* the Status its task_status references is the COMPLETED status.
FinishedIffCompleted ==
  summary # <<>> =>
    \A t \in Seeded("Task") :
      t.val.is_task_finished <=>
        \E s \in Seeded("Status") :
          s.id \in RefsAt(t, "task_status") /\ s.val.task_status = "COMPLETED"

\* Finished tasks referencing COMPLETED and unfinished tasks referencing
\* another status are both in the store.
FinishedIffCompletedWitness ==
  /\ summary # <<>>
  /\ \E t \in Seeded("Task") : \E s \in Seeded("Status") :
       /\ t.val.is_task_finished
       /\ s.id \in RefsAt(t, "task_status")
       /\ s.val.task_status = "COMPLETED"
  /\ \E t \in Seeded("Task") : \E s \in Seeded("Status") :
       /\ ~t.val.is_task_finished
       /\ s.id \in RefsAt(t, "task_status")
       /\ s.val.task_status = "IN_PROGRESS"

\* Document d references, at path p, a seeded document of collection c that
\* has the same project as d.
SameProjectAt(d, p, c) ==
  \A x \in RefsAt(d, p) :
    \E r \in Seeded(c) : r.id = x /\ RefsAt(r, "project_id") = RefsAt(d, "project_id")

\* C26: after a successful run the milestone of a Group or Task, the group of
\* a Task and the task of a TimeLog reference the same project as the
\* referencing record, and the group of a Task references the Task's milestone.
HierarchyConsistent ==
  summary # <<>> =>
    /\ \A g \in Seeded("Group") : SameProjectAt(g, "milestone_id", "Milestone")
    /\ \A t \in Seeded("Task") :
         /\ SameProjectAt(t, "milestone_id", "Milestone")
         /\ SameProjectAt(t, "group_id", "Group")
         /\ \A x \in RefsAt(t, "group_id") :
              \E g \in Seeded("Group") :
                g.id = x /\ RefsAt(g, "milestone_id") = RefsAt(t, "milestone_id")
    /\ \A l \in Seeded("TimeLog") : SameProjectAt(l, "task_id", "Task")

\* A TimeLog, its Task, the Task's Group and Milestone, all of one project.
HierarchyConsistentWitness ==
  /\ summary # <<>>
  /\ \E l \in Seeded("TimeLog") : \E t \in Seeded("Task") :
     \E g \in Seeded("Group") : \E m \in Seeded("Milestone") :
       /\ t.id \in RefsAt(l, "task_id")
       /\ g.id \in RefsAt(t, "group_id")
       /\ m.id \in RefsAt(t, "milestone_id")
       /\ m.id \in RefsAt(g, "milestone_id")
       /\ RefsAt(l, "project_id") = RefsAt(m, "project_id")
       /\ RefsAt(l, "project_id") # {}
       /\ l.pos = 86

\* The users holding an InviteUser with status 'active' for one of the
\* projects ps, and those of them whose InviteUser has isadmin true.
ActiveMembers(ps) ==
  UNION {RefsAt(i, "user_id") :
           i \in {j \in Seeded("InviteUser") :
                    j.val.status = "active" /\ RefsAt(j, "project_id") = ps}}

ActiveAdmins(ps) ==
  UNION {RefsAt(i, "user_id") :
           i \in {j \in Seeded("InviteUser") :
                    /\ j.val.status = "active"
                    /\ j.val.isadmin
                    /\ RefsAt(j, "project_id") = ps}}

\* C27: after a successful run every user a Task is assigned to or by is an
\* active member of the Task's project.
AssigneesAreMembers ==
  summary # <<>> =>
    \A t \in Seeded("Task") :
      /\ RefsAt(t, "project_id") # {}
      /\ RefsAt(t, "assigned_to") \cup RefsAt(t, "assigned_by")
           \subseteq ActiveMembers(RefsAt(t, "project_id"))

\* A Task assigned to two users by a third, all three active members.
AssigneesAreMembersWitness ==
  /\ summary # <<>>
  /\ \E t \in Seeded("Task") :
       /\ Cardinality(RefsAt(t, "assigned_to")) = 2
       /\ Cardinality(RefsAt(t, "assigned_to") \cup RefsAt(t, "assigned_by")) = 3
       /\ RefsAt(t, "assigned_to") \cup RefsAt(t, "assigned_by")
            \subseteq ActiveMembers(RefsAt(t, "project_id"))

\* C28: after a successful run every TimeLog starts before it ends, within one
\* day, and its task_time_spent is the end minus the start in hours and minutes.
SpentIsEndMinusStart ==
  summary # <<>> =>
    \A l \in Seeded("TimeLog") :
      /\ Minutes(l.val.task_start_time) < Minutes(l.val.task_end_time)
      /\ Minutes(l.val.task_end_time) < 24 * 60
      /\ Minutes(l.val.task_time_spent) =
           Minutes(l.val.task_end_time) - Minutes(l.val.task_start_time)

\* The second TimeLog of the literal: 10:00 to 13:30 is 03:30.
SpentIsEndMinusStartWitness ==
  /\ summary # <<>>
  /\ \E l \in Seeded("TimeLog") :
       /\ l.pos = 1
       /\ Minutes(l.val.task_start_time) = 600
       /\ Minutes(l.val.task_end_time) = 810
       /\ Minutes(l.val.task_time_spent) = 210

\* C29: after a successful run the user of every Permission is an active
\* member of the Permission's project and its assigned_by user is an active
\* admin of that project.
PermissionsFromAdmins ==
  summary # <<>> =>
    \A p \in Seeded("Permission") :
      /\ RefsAt(p, "user_id") # {}
      /\ RefsAt(p, "assigned_by") # {}
      /\ RefsAt(p, "user_id") \subseteq ActiveMembers(RefsAt(p, "project_id"))
      /\ RefsAt(p, "assigned_by") \subseteq ActiveAdmins(RefsAt(p, "project_id"))

\* A Permission granted by an admin to a member who is not an admin.
PermissionsFromAdminsWitness ==
  /\ summary # <<>>
  /\ \E p \in Seeded("Permission") :
       /\ RefsAt(p, "assigned_by") \subseteq ActiveAdmins(RefsAt(p, "project_id"))
       /\ RefsAt(p, "assigned_by") # {}
       /\ RefsAt(p, "user_id") \subseteq ActiveMembers(RefsAt(p, "project_id"))
       /\ RefsAt(p, "user_id") \cap ActiveAdmins(RefsAt(p, "project_id")) = {}
       /\ RefsAt(p, "user_id") # {}

(***************************************************************************)
(* The step comments of the populate phase                                 *)
(***************************************************************************)

\* The number of records the comment above each populate step announces:
\* "(10 clients)" is exactly 10, "(50+ tasks ...)" is at least 50.  The comment
\* of the sessions step gives no number.
Announced ==
  [clients            |-> <<"exactly", 10>>,
   designations       |-> <<"exactly", 10>>,
   skills             |-> <<"exactly", 20>>,
   roles              |-> <<"exactly", 5>>,
   users              |-> <<"exactly", 20>>,
   technologies       |-> <<"exactly", 12>>,
   projects           |-> <<"exactly", 10>>,
   statuses           |-> <<"exactly", 6>>,
   milestones         |-> <<"exactly", 15>>,
   groups             |-> <<"exactly", 20>>,
   tasks              |-> <<"at least", 50>>,
   timelogs           |-> <<"at least", 70>>,
   inviteUsers        |-> <<"at least", 50>>,
   permissions        |-> <<"at least", 20>>,
   userAvailabilities |-> <<"at least", 15>>,
   userBookings       |-> <<"at least", 15>>,
   loggedUsers        |-> <<"at least", 12>>]

\* C24: every populate step that has completed has inserted the number of
\* records its step comment announces.
StepCountsAsAnnounced ==
  \A v \in DOMAIN Announced :
    v \in assigned =>
      /\ Cardinality({d \in store[ModelOf(v)] : d.run = runs /\ d # OldDoc}) = Len(batch[v])
      /\ IF Announced[v][1] = "exactly"
           THEN Len(batch[v]) = Announced[v][2]
           ELSE Len(batch[v]) >= Announced[v][2]

\* A successful run has inserted 12 clients, 14 milestones, 34 tasks,
\* 8 permissions and 10 availabilities.
StepCountsDiffer ==
  /\ summary # <<>>
  /\ Cardinality(store["Client"]) = 12
  /\ Cardinality(store["Milestone"]) = 14
  /\ Cardinality(store["Task"]) = 34
  /\ Cardinality(store["Permission"]) = 8
  /\ Cardinality(store["UserAvailability"]) = 10

(***************************************************************************)
(* Properties of the refs and of the clock defaults                        *)
(***************************************************************************)

\* C25: every ref the schemas declare on a model defined in the sources is the
\* exact name a model is registered under, so that populating the path finds
\* the model.
RefsNameRegisteredModels ==
  reg.op = "populate" => ~reg.rejected /\ reg.input[1].ref \in Registered

\* Populating Task.group_id looks up 'Group'; the Group model is registered as
\* 'group', and the lookup throws.
GroupRefNotRegistered ==
  /\ reg.op = "populate"
  /\ reg.model = "Task"
  /\ reg.input[1] = [path |-> "group_id", ref |-> "Group"]
  /\ reg.rejected
  /\ reg.errors = {"MissingSchemaError"}
  /\ "group" \in Registered
  /\ "Group" \notin Registered

\* Every other ref is a registered name.
OtherRefsRegistered ==
  reg.op = "populate" /\ reg.input[1].ref # "Group" => ~reg.rejected

\* C30: two TimeLogs constructed in one process without a date carry the same
\* date, the ISO string of the instant the schema module was loaded, whenever
\* they are constructed; a supplied date is kept.  (The created_date of a
\* Milestone, whose default is a function, is the instant of construction.)
TimeLogDateIsLoadTime ==
  reg.op = "newAgain" =>
    /\ reg.model = "TimeLog" /\ Supplied("date") = <<>> =>
         /\ reg.docs[1].date = reg.docs[2].date
         /\ reg.docs[1].date = IsoString(0)
    /\ reg.model = "TimeLog" /\ Supplied("date") # <<>> =>
         /\ reg.docs[1].date = Supplied("date")[1]
         /\ reg.docs[2].date = Supplied("date")[1]
    /\ reg.model = "Milestone" /\ Supplied("created_date") = <<>> =>
         /\ reg.docs[1].created_date = DateOf(reg.at[1])
         /\ reg.docs[2].created_date = DateOf(reg.at[2])

\* Two TimeLogs without date, the first constructed after the load and the
\* second later still, with the same date.
TimeLogDateIsLoadTimeWitness ==
  /\ reg.op = "newAgain"
  /\ reg.model = "TimeLog"
  /\ Supplied("date") = <<>>
  /\ reg.at[1] > 0
  /\ reg.at[2] > reg.at[1]
  /\ reg.docs[1].date = reg.docs[2].date


====
